---- MODULE Spec2Model ----
(***************************************************************************)
(* HLS generator server (src/hls-generator-server.js): the text-to-clip    *)
(* pipeline of class HLSBuilder                                            *)
(*   greedyMatchPhrases -> generateScript (selectClip, getStaticClip)      *)
(*   -> buildM3U8, driven by generatePlaylist.                             *)
(*                                                                         *)
(* Representation.                                                         *)
(*   - A JavaScript string that the code inspects character by character   *)
(*     (tokens, phrases, seeds, session ids) is a sequence of one-character*)
(*     strings; concatenation is \o.  File names are opaque strings.       *)
(*   - A JavaScript value is a record with a "kind" field (undefined,      *)
(*     true, array, object, function, clip).                               *)
(*   - A duration is an integer number of 1/10000 s, so that toFixed(3)    *)
(*     and toFixed(1) round.                                               *)
(*   - A playlist is the sequence of its lines (the code joins them with   *)
(*     "\n"); a line is [kind, n, parts]: the literal text it starts with, *)
(*     the number printed in it, the strings concatenated after it.        *)
(*   - Token positions are 0-based as in the code; tokens[i] of the code   *)
(*     is tokens[i + 1] here.                                              *)
(***************************************************************************)
EXTENDS Integers, Sequences, FiniteSets, TLC

VARIABLES
    phraseMap,      \* this.phraseMap   (read from the manifest)
    phraseClips,    \* this.phraseClips
    staticClips,    \* this.staticClips
    fixedTokens,    \* this.fixedTokens
    r2Env,          \* process.env.R2_BASE_URL
    now,            \* the wall clock read by new Date()
    md5,            \* the digests computed so far: seed string -> first 8 hex digits as a number
    pc,             \* where generatePlaylist stands
    error,          \* the message of the error generatePlaylist threw
    sessionId,      \* argument of generatePlaylist
    tokens,         \* const tokens of generatePlaylist
    i,              \* loop index of greedyMatchPhrases / generateScript
    matches,        \* const matches
    script,         \* const script
    usedClips,      \* const usedClips of generateScript
    playlist,       \* const playlist
    staticCalls,    \* history: per token index, number of getStaticClip calls of this run
    selected,       \* history: the selectClip calls of this run, in order
    prevRun,        \* history: the result of one earlier generatePlaylist call
    sel,            \* selectClip called on its own: the last call
    manifestFile,   \* what fs.readFileSync(manifestPath) and JSON.parse find
    proc,           \* the server process: where its start-up stands
    sessions,       \* const sessions = new Map()
    timerDue,       \* when the setInterval callback is due next
    resp,           \* history: the last request handled and its response
    tok,            \* normalizeAndTokenize called on its own: text, tokens, tokens again
    front,          \* the generator page: containers, generateVideo calls, hls, timers
    player,         \* an HLSPlayer object and its Hls instance
    lookup          \* getStaticClip called on its own: token and clip returned

serverVars == <<manifestFile, proc, sessions, timerDue, resp>>
browserVars == <<front, player>>
otherVars == <<serverVars, tok, browserVars, lookup>>

vars == <<phraseMap, phraseClips, staticClips, fixedTokens, r2Env, now, md5, pc, error,
          sessionId, tokens, i, matches, script, usedClips, playlist,
          staticCalls, selected, prevRun, sel, otherVars>>

manifestVars == <<phraseMap, phraseClips, staticClips, fixedTokens>>
runVars == <<sessionId, tokens, i, matches, script, usedClips, playlist,
             staticCalls, selected>>
selVars == <<sel>>

----------------------------------------------------------------------------
(* Bounds of the model *)

MaxTokens == 3
MaxText == 3
MaxClicks == 2
MaxEvents == 5
MaxClock == 1
HashMod == 3

(* CONFIG *)

maxPhraseLength == 10
sessionTTL == 3600000
cleanupInterval == 300000

----------------------------------------------------------------------------
(* JavaScript values *)

Undefined == [kind |-> "undefined"]
Null == [kind |-> "null"]
True == [kind |-> "true"]
Array(items) == [kind |-> "array", items |-> items]
Obj(props) == [kind |-> "object", props |-> props]
Clip(filename, duration) == [kind |-> "clip", filename |-> filename, duration |-> duration]
\* the function Object, which every object inherits as its "constructor"
ObjectFunction == [kind |-> "function", length |-> 1]

EmptyProps == [k \in {} |-> Undefined]

Str(s) == [kind |-> "string", s |-> s]

\* undefined, null and the empty string are falsy
Truthy(v) == v.kind \notin {"undefined", "null"} /\ ~(v.kind = "string" /\ v.s = "")

\* the one all-lowercase property name of Object.prototype
T_constructor == <<"c", "o", "n", "s", "t", "r", "u", "c", "t", "o", "r">>
ObjectPrototype == [k \in {T_constructor} |-> ObjectFunction]

\* obj[key] of an object made by JSON.parse or {}: an own property, else an
\* inherited one, else undefined
Get(obj, key) ==
    IF key \in DOMAIN obj.props THEN obj.props[key]
    ELSE IF key \in DOMAIN ObjectPrototype THEN ObjectPrototype[key]
    ELSE Undefined

\* obj?.[key]
OptGet(obj, key) ==
    IF obj.kind \in {"undefined", "null"} THEN Undefined ELSE Get(obj, key)

\* v.length > 0
LengthPositive(v) ==
    CASE v.kind = "array" -> Len(v.items) > 0
      [] v.kind = "function" -> v.length > 0
      [] OTHER -> FALSE

\* v.length === 0
LengthZero(v) ==
    CASE v.kind = "array" -> Len(v.items) = 0
      [] v.kind = "function" -> v.length = 0
      [] OTHER -> FALSE

----------------------------------------------------------------------------
(* Characters and the regular expressions of the code *)

Lower == {"a", "b", "c", "d", "e", "f", "g", "h", "i", "j", "k", "l", "m",
          "n", "o", "p", "q", "r", "s", "t", "u", "v", "w", "x", "y", "z"}
Upper == {"A", "B", "C", "D", "E", "F", "G", "H", "I", "J", "K", "L", "M",
          "N", "O", "P", "Q", "R", "S", "T", "U", "V", "W", "X", "Y", "Z"}
Digit == {"0", "1", "2", "3", "4", "5", "6", "7", "8", "9"}

\* \w
IsWordChar(c) == c \in Lower \cup Upper \cup Digit \cup {"_"}
\* \s
IsSpace(c) == c \in {" ", "\t", "\n", "\r"}

\* /^[^\w\s]+$/.test(token)
IsPunctuation(token) ==
    /\ Len(token) > 0
    /\ \A k \in 1..Len(token) : ~IsWordChar(token[k]) /\ ~IsSpace(token[k])

\* tokens.join(' ')
RECURSIVE Join(_)
Join(ts) ==
    IF Len(ts) = 0 THEN <<>>
    ELSE IF Len(ts) = 1 THEN ts[1]
    ELSE ts[1] \o <<" ">> \o Join(Tail(ts))

\* tokens.slice(start, end)
Slice(ts, start, end) == SubSeq(ts, start + 1, end)

Min(a, b) == IF a < b THEN a ELSE b

----------------------------------------------------------------------------
(* greedyMatchPhrases *)

\* the inner while loop: up to `length` consecutive tokens from j, stopping
\* at punctuation
RECURSIVE CollectPhraseTokens(_, _, _, _)
CollectPhraseTokens(toks, j, length, phraseTokens) ==
    IF j < Len(toks) /\ Len(phraseTokens) < length
    THEN IF IsPunctuation(toks[j + 1])
         THEN phraseTokens
         ELSE CollectPhraseTokens(toks, j + 1, length, Append(phraseTokens, toks[j + 1]))
    ELSE phraseTokens

\* this.phraseMap[candidate] && this.phraseClips[candidate] &&
\* this.phraseClips[candidate].length > 0
CandidateMatches(candidate) ==
    /\ Truthy(Get(phraseMap, candidate))
    /\ Truthy(Get(phraseClips, candidate))
    /\ LengthPositive(Get(phraseClips, candidate))

\* faulty variant: the lengths tried from 1 upwards, the shortest match taken
RECURSIVE TryLengthsUp(_, _, _, _)
TryLengthsUp(toks, pos, length, maxLen) ==
    IF length > maxLen THEN 0
    ELSE LET phraseTokens == CollectPhraseTokens(toks, pos, length, <<>>)
         IN  IF Len(phraseTokens) = length /\ CandidateMatches(Join(phraseTokens))
             THEN length
             ELSE TryLengthsUp(toks, pos, length + 1, maxLen)

TryLengths_ShortestFirst(toks, pos, length) == TryLengthsUp(toks, pos, 1, length)

\* the for loop over length, from `length` down to 1: the first length whose
\* candidate matches, 0 when none does
RECURSIVE TryLengths(_, _, _)
TryLengths(toks, pos, length) ==
    IF length <= 0 THEN 0
    ELSE LET phraseTokens == CollectPhraseTokens(toks, pos, length, <<>>)
         IN  IF Len(phraseTokens) = length /\ CandidateMatches(Join(phraseTokens))
             THEN length
             ELSE TryLengths(toks, pos, length - 1)

\* faulty variant: the phrase length is capped by the tokens left only
BestLength_NoCap(toks, pos) == TryLengths(toks, pos, Len(toks) - pos)

\* bestLength after the for loop
BestLength(toks, pos) ==
    TryLengths(toks, pos, Min(maxPhraseLength, Len(toks) - pos))

\* bestMatch after the for loop, when bestLength > 0
BestMatch(toks, pos) ==
    Join(CollectPhraseTokens(toks, pos, BestLength(toks, pos), <<>>))

\* if (bestMatch): a non-empty string
MatchFound(toks, pos) == BestLength(toks, pos) > 0 /\ BestMatch(toks, pos) # <<>>

\* faulty variant: the scan resumes at the next token after a match
MatchAdvance_ByOne(pos, bestLength) == pos + 1

\* i += bestLength
MatchAdvance(pos, bestLength) == pos + bestLength

----------------------------------------------------------------------------
(* selectClip *)

\* faulty variant: a pool of one clip is refused as well (length <= 1)
SelectReturnsNull_UpToOne(availableClips) ==
    ~Truthy(availableClips) \/ LengthZero(availableClips)
        \/ (availableClips.kind = "array" /\ Len(availableClips.items) = 1)

\* if (!availableClips || availableClips.length === 0) return null
SelectReturnsNull(availableClips) ==
    ~Truthy(availableClips) \/ LengthZero(availableClips)

\* availableClips.filter of a value that is no array is not a function
SelectThrows(availableClips) ==
    ~SelectReturnsNull(availableClips) /\ availableClips.kind # "array"

\* availableClips.filter(clip => !usedClips.has(clip.filename))
Unused(items, used) == SelectSeq(items, LAMBDA clip : clip.filename \notin used)

\* faulty variant: the clips used before are not set aside
SelectPool_All(items, used) == items

\* unused.length > 0 ? unused : availableClips
SelectPool(items, used) ==
    IF Len(Unused(items, used)) > 0 THEN Unused(items, used) ELSE items

\* parseInt(hash.substr(0, 8), 16) % pool.length
SelectIndex(hash, pool) == hash % Len(pool)

\* pool[index]
SelectedClip(items, used, hash) ==
    SelectPool(items, used)[SelectIndex(hash, SelectPool(items, used)) + 1]

\* faulty variant: the file name of the clip returned is not remembered
AddUsed_Forget(used, clip) == used

\* usedClips.add(selected.filename)
AddUsed(used, clip) == used \cup {clip.filename}

\* faulty variant: a random number instead of the digest of the seed
Digests_Random(seedStr) == 0..(HashMod - 1)

\* the digest of seedStr: the one computed before for the same string, else
\* any value (MD5 is a fixed function the model does not compute)
Digests(seedStr) ==
    IF seedStr \in DOMAIN md5 THEN {md5[seedStr]} ELSE 0..(HashMod - 1)

----------------------------------------------------------------------------
(* slugify, getStaticClip *)

\* text.replace(/[^a-z0-9]/g, '_')
RECURSIVE Slugify(_)
Slugify(text) ==
    IF Len(text) = 0 THEN <<>>
    ELSE <<IF Head(text) \in Lower \cup Digit THEN Head(text) ELSE "_">>
         \o Slugify(Tail(text))

\* lines 224-227: in the source both quote lines compare the token with the
\* straight quote only; the dash line maps the em and the en dash
PunctVariant(token) ==
    IF token = <<"U+2014">> \/ token = <<"U+2013">> THEN <<"-">> ELSE token

Or(a, b) == IF Truthy(a) THEN a ELSE b

GetStaticClip(token) ==
    IF IsPunctuation(token)
    THEN Or(OptGet(staticClips.punctuation, PunctVariant(token)),
            Or(OptGet(staticClips.punctuation, <<".">>), Null))
    ELSE LET wordClip == OptGet(staticClips.words, Slugify(token))
         IN  IF Truthy(wordClip) THEN wordClip ELSE Null

----------------------------------------------------------------------------
(* generateScript *)

\* the set `covered`
Covered(ms) ==
    UNION {ms[n].start..(ms[n].end - 1) : n \in 1..Len(ms)}

\* matches.find(m => m.start === i): the position in matches, 0 when none
FindMatch(ms, pos) ==
    IF \E n \in 1..Len(ms) : ms[n].start = pos
    THEN CHOOSE n \in 1..Len(ms) :
            /\ ms[n].start = pos
            /\ \A n2 \in 1..(n - 1) : ms[n2].start # pos
    ELSE 0

\* this.phraseClips[match.phrase] || []
AvailableClips(phrase) == Or(Get(phraseClips, phrase), Array(<<>>))

\* v.filename, v.duration of a clip; of anything else, undefined
FilenameOf(v) == IF v.kind = "clip" THEN v.filename ELSE "undefined"
DurationOf(v) == IF v.kind = "clip" THEN v.duration ELSE 0 - 1
DurationDefined(d) == d >= 0

Item(text, clip, type) ==
    [text |-> text, filename |-> FilenameOf(clip), duration |-> DurationOf(clip),
     type |-> type]

----------------------------------------------------------------------------
(* buildM3U8 *)

openerDuration == 80800

Line(kind, n, parts) == [kind |-> kind, n |-> n, parts |-> parts]

\* d.toFixed(3): thousandths of a second; d.toFixed(1): tenths
ToFixed3(d) == (d + 5) \div 10
ToFixed1(d) == (d + 500) \div 1000

\* CONFIG.r2BaseUrl: process.env.R2_BASE_URL || null
r2BaseUrl == Or(r2Env, Null)

\* faulty variant: the opener keeps its site-relative path
openerPath_Relative == <<"/hls_clips/static/", "opener.ts">>

openerPath ==
    IF Truthy(r2BaseUrl)
    THEN <<r2BaseUrl.s, "/hls_clips/static/", "opener.ts">>
    ELSE <<"/hls_clips/static/", "opener.ts">>

ClipPath(item) ==
    IF Truthy(r2BaseUrl)
    THEN IF item.type = "phrase"
         THEN <<r2BaseUrl.s, "/hls_clips/trimmed/", item.filename>>
         ELSE <<r2BaseUrl.s, "/hls_clips/static/", item.filename>>
    ELSE IF item.type = "phrase"
         THEN <<"/hls_clips/trimmed/", item.filename>>
         ELSE <<"/hls_clips/static/", item.filename>>

\* faulty variant: no discontinuity tag before the segment
Segment_NoDiscontinuity(item) ==
    << Line("#EXTINF:", ToFixed3(item.duration), <<>>),
       Line("", 0, ClipPath(item)) >>

\* the three lines of one item
Segment(item) ==
    << Line("#EXT-X-DISCONTINUITY", 0, <<>>),
       Line("#EXTINF:", ToFixed3(item.duration), <<>>),
       Line("", 0, ClipPath(item)) >>

RECURSIVE SegmentsBackwards(_)
SegmentsBackwards(items) ==
    IF Len(items) = 0 THEN <<>> ELSE SegmentsBackwards(Tail(items)) \o Segment(Head(items))

\* faulty variant: the items are written last to first
Segments_Reversed(items) == SegmentsBackwards(items)

\* the for loop over script
RECURSIVE Segments(_)
Segments(items) ==
    IF Len(items) = 0 THEN <<>> ELSE Segment(Head(items)) \o Segments(Tail(items))

RECURSIVE SumDurations(_)
SumDurations(items) ==
    IF Len(items) = 0 THEN 0 ELSE Head(items).duration + SumDurations(Tail(items))

\* item.duration.toFixed of an undefined duration is a TypeError
BuildThrows(items) ==
    \E k \in 1..Len(items) : ~DurationDefined(items[k].duration)

\* the lines of the playlist; date is what new Date() returns
BuildM3U8(items, sid, date) ==
    << Line("#EXTM3U", 0, <<>>),
       Line("#EXT-X-VERSION:3", 0, <<>>),
       Line("#EXT-X-TARGETDURATION:10", 0, <<>>),
       Line("#EXT-X-PLAYLIST-TYPE:VOD", 0, <<>>),
       Line("# Session: ", 0, sid),
       Line("# Generated: ", date, <<>>),
       Line("# Clips: ", Len(items) + 1, <<>>),
       Line("#EXT-X-DISCONTINUITY", 0, <<>>),
       Line("#EXTINF:", ToFixed3(openerDuration), <<>>),
       Line("", 0, openerPath) >>
    \o Segments(items)
    \o << Line("#EXT-X-ENDLIST", 0, <<>>),
          Line("# Total duration: ", ToFixed1(openerDuration + SumDurations(items)), <<>>) >>

----------------------------------------------------------------------------
(* The manifests and the inputs the model draws from *)

T_good == <<"g", "o", "o", "d">>
T_morning == <<"m", "o", "r", "n", "i", "n", "g">>
T_dot == <<".">>

Vocabulary == {T_good, T_morning, T_dot, T_constructor}

P_good == T_good
P_morning == T_morning
P_good_morning == Join(<<T_good, T_morning>>)
P_morning_good == Join(<<T_morning, T_good>>)


\* the two phrases of the greediness example, one clip each, and static clips
\* for one word and for the period
ManifestA ==
    [ phraseMap |-> Obj([k \in {P_good_morning, P_morning} |-> True]),
      phraseClips |-> Obj(
          [k \in {P_good_morning, P_morning} |->
              IF k = P_good_morning THEN Array(<<Clip("gm1.ts", 20000)>>)
              ELSE Array(<<Clip("m1.ts", 12346)>>)]),
      staticClips |->
          [ words |-> Obj([k \in {T_good} |-> Clip("good.ts", 5000)]),
            punctuation |-> Obj([k \in {T_dot} |-> Clip("dot.ts", 1500)]) ] ]

\* nested phrases, pools of two and three clips that share file names, a
\* phrase whose pool is empty, no punctuation clips
ManifestB ==
    [ phraseMap |-> Obj([k \in {P_good, P_good_morning, P_morning, P_morning_good} |-> True]),
      phraseClips |-> Obj(
          [k \in {P_good, P_good_morning, P_morning, P_morning_good} |->
              CASE k = P_good -> Array(<<Clip("a.ts", 5000), Clip("b.ts", 6000)>>)
                [] k = P_good_morning -> Array(<<Clip("b.ts", 6000), Clip("c.ts", 21000)>>)
                [] k = P_morning -> Array(<<Clip("m1.ts", 12346), Clip("m2.ts", 9000), Clip("m3.ts", 9500)>>)
                [] OTHER -> Array(<<>>)]),
      staticClips |->
          [ words |-> Obj([k \in {T_good, T_morning} |->
                            IF k = T_good THEN Clip("good.ts", 5000)
                            ELSE Clip("morning.ts", 7000)]),
            punctuation |-> Undefined ] ]

\* a phrase that has clips but is not in phraseMap, a phrase in phraseMap
\* without an entry in phraseClips, a punctuation table without the period
ManifestC ==
    [ phraseMap |-> Obj([k \in {P_good_morning, P_morning_good} |-> True]),
      phraseClips |-> Obj(
          [k \in {P_morning, P_morning_good} |->
              IF k = P_morning THEN Array(<<Clip("m1.ts", 12346)>>)
              ELSE Array(<<Clip("c.ts", 21000)>>)]),
      staticClips |->
          [ words |-> Obj([k \in {T_morning} |-> Clip("morning.ts", 7000)]),
            punctuation |-> Obj([k \in {<<",">>} |-> Clip("comma.ts", 1000)]) ] ]

\* a manifest without phraseMap, phraseClips and staticClips: each is {}
ManifestD ==
    [ phraseMap |-> Obj(EmptyProps),
      phraseClips |-> Obj(EmptyProps),
      staticClips |-> [words |-> Undefined, punctuation |-> Undefined] ]

Manifests == {ManifestA, ManifestB, ManifestC, ManifestD}

TokenSeqs == UNION {[1..n -> Vocabulary] : n \in 0..MaxTokens}

\* crypto.randomBytes(16).toString('hex'), shortened
SessionIds == {<<"a", "1">>, <<"b", "2">>}

R2Envs == {Undefined, Str(""), Str("https://pub.r2.dev")}

NoRun == [kind |-> "none"]
NoCall == [kind |-> "none"]
NoCounts == [k \in {} |-> 0]

----------------------------------------------------------------------------
(* The state after construction: new HLSBuilder(CONFIG.manifestPath) *)

InitManifest(manifests, envs) ==
    /\ \E m \in manifests :
        /\ phraseMap = m.phraseMap
        /\ phraseClips = m.phraseClips
        /\ staticClips = m.staticClips
    /\ fixedTokens \in {Undefined} \cup {Array(ts) : ts \in TokenSeqs}
    /\ r2Env \in envs

InitRun ==
    /\ sessionId = <<>>
    /\ tokens = <<>>
    /\ i = 0
    /\ matches = <<>>
    /\ script = <<>>
    /\ usedClips = {}
    /\ playlist = <<>>
    /\ staticCalls = NoCounts
    /\ selected = <<>>

\* the parts of the program that a specification leaves out stand still
NoServer ==
    /\ manifestFile = [kind |-> "none"]
    /\ proc = "none"
    /\ sessions = [k \in {} |-> 0]
    /\ timerDue = 0
    /\ resp = [op |-> "none"]

NoText == [stage |-> "none"]

NoBrowser == front = [kind |-> "none"] /\ player = [kind |-> "none"]

NoLookup == [kind |-> "none"]

InitOther == NoServer /\ tok = NoText /\ NoBrowser /\ lookup = NoLookup

InitRest ==
    /\ InitRun
    /\ now = 0
    /\ md5 = [k \in {} |-> 0]
    /\ pc = "idle"
    /\ error = "none"
    /\ prevRun = NoRun
    /\ sel = NoCall
    /\ InitOther

Init == InitManifest(Manifests, R2Envs) /\ InitRest

----------------------------------------------------------------------------
(* generatePlaylist(sessionId) *)

\* lines 370-376: without fixed tokens the call throws
GenerateThrow(sid) ==
    /\ pc = "idle"
    /\ ~Truthy(fixedTokens)
    /\ pc' = "error"
    /\ error' = "No fixed text available in manifest"
    /\ sessionId' = sid
    /\ UNCHANGED <<manifestVars, r2Env, now, md5, tokens, i, matches, script,
                   usedClips, playlist, staticCalls, selected, prevRun, selVars, otherVars>>

\* lines 370-381 and 112-113: greedyMatchPhrases(tokens) begins
Generate(sid) ==
    /\ pc = "idle"
    /\ Truthy(fixedTokens)
    /\ pc' = "match"
    /\ sessionId' = sid
    /\ tokens' = fixedTokens.items
    /\ i' = 0
    /\ matches' = <<>>
    /\ staticCalls' = [k \in 0..(Len(fixedTokens.items) - 1) |-> 0]
    /\ UNCHANGED <<manifestVars, r2Env, now, md5, error, script, usedClips, playlist,
                   selected, prevRun, selVars, otherVars>>

\* one iteration of the while loop of greedyMatchPhrases
MatchStep ==
    /\ pc = "match"
    /\ i < Len(tokens)
    /\ IF IsPunctuation(tokens[i + 1])
       THEN /\ i' = i + 1
            /\ matches' = matches
       ELSE IF MatchFound(tokens, i)
       THEN /\ matches' = Append(matches,
                [phrase |-> BestMatch(tokens, i), start |-> i,
                 end |-> i + BestLength(tokens, i)])
            /\ i' = MatchAdvance(i, BestLength(tokens, i))
       ELSE /\ i' = i + 1
            /\ matches' = matches
    /\ UNCHANGED <<manifestVars, r2Env, now, md5, pc, error, sessionId, tokens, script,
                   usedClips, playlist, staticCalls, selected, prevRun, selVars, otherVars>>

\* faulty variant: one set of used file names kept by the builder for all calls
NewUsedClips_Shared == usedClips

\* line 252: const usedClips = new Set()
NewUsedClips == {}

\* greedyMatchPhrases returns; lines 251-261 of generateScript
MatchReturn ==
    /\ pc = "match"
    /\ i >= Len(tokens)
    /\ pc' = "script"
    /\ i' = 0
    /\ script' = <<>>
    /\ usedClips' = NewUsedClips
    /\ UNCHANGED <<manifestVars, r2Env, now, md5, error, sessionId, tokens, matches,
                   playlist, staticCalls, selected, prevRun, selVars, otherVars>>

\* faulty variant: i = match.start - 1, then the i++ of the for loop
ScriptAdvance_Restart(match) == (match.start - 1) + 1

\* faulty variant: i = match.end, then the i++ of the for loop
ScriptAdvance_PastEnd(match) == match.end + 1

\* i = match.end - 1, then the i++ of the for loop
ScriptAdvance(match) == (match.end - 1) + 1

\* faulty variant: the clip chosen is taken out of the pool of the phrase
PoolsAfterSelect_Remove(pools, phrase, clip) ==
    Obj([pools.props EXCEPT ![phrase] = Array(SelectSeq(@.items, LAMBDA c : c # clip))])

\* this.phraseClips after selectClip: filter builds a new array and pool[index]
\* reads, so the pools are what they were
PoolsAfterSelect(pools, phrase, clip) == pools

\* one selectClip call as a history record
Call(pos, availableClips, used, seedStr, result) ==
    [pos |-> pos, availableClips |-> availableClips, used |-> used,
     seedStr |-> seedStr, result |-> result]

\* one iteration of the for loop of generateScript, at the start of a match
ScriptMatch ==
    /\ pc = "script"
    /\ i < Len(tokens)
    /\ FindMatch(matches, i) > 0
    /\ LET match == matches[FindMatch(matches, i)]
           availableClips == AvailableClips(match.phrase)
           seedStr == sessionId \o match.phrase
       IN  IF SelectReturnsNull(availableClips)
           THEN /\ selected' = Append(selected,
                        Call(i, availableClips, usedClips, seedStr, Null))
                /\ i' = ScriptAdvance(match)
                /\ UNCHANGED <<md5, pc, error, script, usedClips, phraseClips>>
           ELSE IF SelectThrows(availableClips)
           THEN /\ pc' = "error"
                /\ error' = "availableClips.filter is not a function"
                /\ UNCHANGED <<md5, i, script, usedClips, selected, phraseClips>>
           ELSE \E hash \in Digests(seedStr) :
                LET clip == SelectedClip(availableClips.items, usedClips, hash)
                IN  /\ md5' = (seedStr :> hash) @@ md5
                    /\ phraseClips' = PoolsAfterSelect(phraseClips, match.phrase, clip)
                    /\ usedClips' = AddUsed(usedClips, clip)
                    /\ selected' = Append(selected,
                            Call(i, availableClips, usedClips, seedStr, clip))
                    /\ script' = Append(script,
                            Item(Join(Slice(tokens, match.start, match.end)), clip, "phrase"))
                    /\ i' = ScriptAdvance(match)
                    /\ UNCHANGED <<pc, error>>
    /\ UNCHANGED <<phraseMap, staticClips, fixedTokens, r2Env, now, sessionId, tokens,
                   matches, playlist, staticCalls, prevRun, selVars, otherVars>>

\* one iteration of the for loop of generateScript, elsewhere
ScriptToken ==
    /\ pc = "script"
    /\ i < Len(tokens)
    /\ FindMatch(matches, i) = 0
    /\ IF i \notin Covered(matches)
       THEN LET staticClip == GetStaticClip(tokens[i + 1])
            IN  /\ staticCalls' = [staticCalls EXCEPT ![i] = @ + 1]
                /\ script' = IF Truthy(staticClip)
                             THEN Append(script, Item(tokens[i + 1], staticClip, "static"))
                             ELSE script
       ELSE UNCHANGED <<staticCalls, script>>
    /\ i' = i + 1
    /\ UNCHANGED <<manifestVars, r2Env, now, md5, pc, error, sessionId, tokens, matches,
                   usedClips, playlist, selected, prevRun, selVars, otherVars>>

\* generateScript returns
ScriptReturn ==
    /\ pc = "script"
    /\ i >= Len(tokens)
    /\ pc' = "build"
    /\ UNCHANGED <<manifestVars, r2Env, now, md5, error, runVars, prevRun, selVars, otherVars>>

\* buildM3U8(script, sessionId), and generatePlaylist returns
Build ==
    /\ pc = "build"
    /\ \E date \in {now} \cup (now..MaxClock) :
        /\ now' = date
        /\ IF BuildThrows(script)
           THEN /\ pc' = "error"
                /\ error' = "Cannot read properties of undefined (reading 'toFixed')"
                /\ playlist' = playlist
           ELSE /\ pc' = "done"
                /\ error' = error
                /\ playlist' = BuildM3U8(script, sessionId, date)
    /\ UNCHANGED <<manifestVars, r2Env, md5, sessionId, tokens, i, matches, script,
                   usedClips, staticCalls, selected, prevRun, selVars, otherVars>>

\* what a generatePlaylist call ended with
Outcome ==
    [kind |-> "run", sessionId |-> sessionId, pc |-> pc, error |-> error,
     matches |-> matches, script |-> script, playlist |-> playlist]

\* the call is over and its locals are gone; the next call can begin
NextCall ==
    /\ pc \in {"done", "error"}
    /\ pc' = "idle"
    /\ error' = "none"
    /\ prevRun' \in (IF prevRun = NoRun THEN {NoRun, Outcome} ELSE {prevRun})
    /\ sessionId' = <<>>
    /\ tokens' = <<>>
    /\ i' = 0
    /\ matches' = <<>>
    /\ script' = <<>>
    /\ usedClips' = {}
    /\ playlist' = <<>>
    /\ staticCalls' = NoCounts
    /\ selected' = <<>>
    /\ UNCHANGED <<manifestVars, r2Env, now, md5, selVars, otherVars>>

Next ==
    \/ \E sid \in SessionIds : GenerateThrow(sid)
    \/ \E sid \in SessionIds : Generate(sid)
    \/ MatchStep
    \/ MatchReturn
    \/ ScriptMatch
    \/ ScriptToken
    \/ ScriptReturn
    \/ Build

Spec == Init /\ [][Next]_vars

\* generatePlaylist on the manifest of nested phrases, run on once begun: it
\* is one synchronous call
InitFair == InitManifest({ManifestB}, {Undefined}) /\ InitRest

SpecFair == InitFair /\ [][Next]_vars /\ WF_vars(Next)

\* generatePlaylist called again and again for one session id on one manifest,
\* at the same or at a later time
InitRuns == InitManifest({ManifestA, ManifestB}, {Undefined}) /\ InitRest

NextRuns ==
    \/ GenerateThrow(<<"a", "1">>)
    \/ Generate(<<"a", "1">>)
    \/ MatchStep
    \/ MatchReturn
    \/ ScriptMatch
    \/ ScriptToken
    \/ ScriptReturn
    \/ Build
    \/ NextCall

SpecRuns == InitRuns /\ [][NextRuns]_vars

----------------------------------------------------------------------------
(* selectClip(availableClips, usedClips, seedStr) called on its own, on any
   pool, any set of used file names and any seed *)

SelectPools ==
    { Undefined, Null, Array(<<>>),
      Array(<<Clip("a.ts", 5000)>>),
      Array(<<Clip("a.ts", 5000), Clip("b.ts", 6000)>>),
      Array(<<Clip("c.ts", 21000), Clip("a.ts", 5000), Clip("b.ts", 6000)>>) }

SelectFilenames == {"a.ts", "b.ts", "c.ts"}

SelectSeeds == {<<"s", "e", "e", "d", "-", "A">>, <<"s", "e", "e", "d", "-", "B">>}

InitSelect ==
    /\ InitManifest({ManifestD}, {Undefined})
    /\ fixedTokens = Undefined
    /\ InitRun
    /\ now = 0
    /\ md5 = [k \in {} |-> 0]
    /\ pc = "select"
    /\ error = "none"
    /\ prevRun = NoRun
    /\ sel = NoCall
    /\ InitOther

\* two calls were given the same pool, the same used file names and the same seed
SameArguments(c1, c2) ==
    /\ c1.availableClips = c2.availableClips
    /\ c1.used = c2.used
    /\ c1.seedStr = c2.seedStr

\* the call as kept in sel: `again` compares it with the call before it, "no"
\* when that one had other arguments, else whether the two returned the same
Record(call) ==
    [kind |-> "call", call |-> call,
     again |-> IF sel.kind = "call" /\ SameArguments(sel.call, call)
               THEN (IF sel.call.result = call.result THEN "same" ELSE "different")
               ELSE "no"]

\* a call that returns null: nothing is hashed, usedClips is left alone
SelectNull(availableClips, used, seedStr) ==
    /\ pc = "select"
    /\ SelectReturnsNull(availableClips)
    /\ usedClips' = used
    /\ sel' = Record(Call(0, availableClips, used, seedStr, Null))
    /\ UNCHANGED <<manifestVars, r2Env, now, md5, pc, error, sessionId, tokens, i, matches,
                   script, playlist, staticCalls, selected, prevRun,
                   otherVars>>

\* a call that returns a clip
SelectSome(availableClips, used, seedStr) ==
    /\ pc = "select"
    /\ ~SelectReturnsNull(availableClips)
    /\ \E hash \in Digests(seedStr) :
        LET clip == SelectedClip(availableClips.items, used, hash)
        IN  /\ md5' = (seedStr :> hash) @@ md5
            /\ usedClips' = AddUsed(used, clip)
            /\ sel' = Record(Call(0, availableClips, used, seedStr, clip))
    /\ UNCHANGED <<manifestVars, r2Env, now, pc, error, sessionId, tokens, i, matches,
                   script, playlist, staticCalls, selected, prevRun,
                   otherVars>>

NextSelect ==
    \E availableClips \in SelectPools, used \in SUBSET SelectFilenames,
       seedStr \in SelectSeeds :
        \/ SelectNull(availableClips, used, seedStr)
        \/ SelectSome(availableClips, used, seedStr)

SpecSelect == InitSelect /\ [][NextSelect]_vars

----------------------------------------------------------------------------
(* The server: start-up, the session store, the routes and the cleanup timer.
   Node runs one handler to completion before the next one starts, so the
   steps generatePlaylist takes inside POST /generate are never interleaved
   with another handler: every other handler waits for pc = "idle". *)

\* what the manifest file can be: absent, not JSON, or the JSON of a manifest
\* with or without fixedTokens
ServerTokenSeqs == { <<T_morning, T_dot>>, <<T_constructor>>, <<T_morning, T_good>> }

ManifestFiles ==
    { [kind |-> "missing"], [kind |-> "corrupt"] } \cup
    { [kind |-> "json", manifest |-> ManifestC, fixedTokens |-> ft] :
        ft \in {Undefined} \cup {Array(ts) : ts \in ServerTokenSeqs} }

NoSessions == [k \in {} |-> 0]
NoResponse == [op |-> "none"]

InitServer ==
    /\ manifestFile \in ManifestFiles
    /\ proc = "start"
    /\ phraseMap = Undefined
    /\ phraseClips = Undefined
    /\ staticClips = Undefined
    /\ fixedTokens = Undefined
    /\ r2Env = Undefined
    /\ sessions = NoSessions
    /\ timerDue = 0
    /\ resp = NoResponse
    /\ InitRun
    /\ now = 0
    /\ md5 = [k \in {} |-> 0]
    /\ pc = "idle"
    /\ error = "none"
    /\ prevRun = NoRun
    /\ sel = NoCall
    /\ tok = NoText
    /\ NoBrowser
    /\ lookup = NoLookup

\* fs.readFileSync or JSON.parse throws
LoadFails(file) == file.kind # "json"

\* faulty variant: the catch block logs the error and start-up goes on
AfterLoadFailure_Continue == "loaded"

\* lines 422-425: process.exit(1)
AfterLoadFailure == "exited"

\* lines 419-425: builder = new HLSBuilder(CONFIG.manifestPath)
LoadManifest ==
    /\ proc = "start"
    /\ IF LoadFails(manifestFile)
       THEN /\ proc' = AfterLoadFailure
            /\ UNCHANGED manifestVars
       ELSE /\ proc' = "loaded"
            /\ phraseMap' = Or(manifestFile.manifest.phraseMap, Obj(EmptyProps))
            /\ phraseClips' = Or(manifestFile.manifest.phraseClips, Obj(EmptyProps))
            /\ staticClips' = manifestFile.manifest.staticClips
            /\ fixedTokens' = manifestFile.fixedTokens
    /\ UNCHANGED <<r2Env, now, md5, pc, error, runVars, prevRun, selVars,
                   manifestFile, sessions, timerDue, resp, tok, browserVars, lookup>>

\* lines 428-436 and 543: setInterval(..., CONFIG.cleanupInterval), app.listen
Listen ==
    /\ proc = "loaded"
    /\ proc' = "listening"
    /\ timerDue' = now + cleanupInterval
    /\ UNCHANGED <<manifestVars, r2Env, now, md5, pc, error, runVars, prevRun, selVars,
                   manifestFile, sessions, resp, tok, browserVars, lookup>>

\* the server is listening and no handler is running
Ready == proc = "listening" /\ pc = "idle"

\* POST /generate, lines 455-464: the handler draws sessionId and calls
\* builder.generatePlaylist(sessionId)
PostGenerate(sid) == Ready /\ Generate(sid)
PostGenerateThrow(sid) == Ready /\ GenerateThrow(sid)

\* lines 467-473: the stored session; lastAccessed is not set yet
Session(created, result) ==
    [created |-> created, playlist |-> result.playlist, script |-> result.script,
     tokens |-> result.tokens, matches |-> result.matches, lastAccessed |-> <<>>]

\* lines 476-483
Stats(result) ==
    [totalTokens |-> Len(result.tokens),
     matchedPhrases |-> Len(result.matches),
     totalClips |-> Len(result.script),
     phraseClips |-> Len(SelectSeq(result.script, LAMBDA c : c.type = "phrase")),
     staticClips |-> Len(SelectSeq(result.script, LAMBDA c : c.type = "static")),
     totalDuration |-> SumDurations(result.script)]

Response(op, sid, status, body) ==
    [op |-> op, sessionId |-> sid, status |-> status, body |-> body]

\* the handler is over: its locals are gone (the Set of used file names is
\* garbage that nothing refers to any more)
EndCall ==
    /\ pc' = "idle"
    /\ error' = "none"
    /\ sessionId' = <<>>
    /\ tokens' = <<>>
    /\ i' = 0
    /\ matches' = <<>>
    /\ script' = <<>>
    /\ usedClips' = usedClips
    /\ playlist' = <<>>
    /\ staticCalls' = NoCounts
    /\ selected' = <<>>

\* POST /generate, lines 466-491: generatePlaylist returned
PostStore ==
    /\ proc = "listening"
    /\ pc = "done"
    /\ LET result == [playlist |-> playlist, script |-> script, tokens |-> tokens,
                      matches |-> matches]
       IN  /\ sessions' = (sessionId :> Session(now, result)) @@ sessions
           /\ resp' = Response("POST /generate", sessionId, 200,
                        [kind |-> "json", sessionId |-> sessionId,
                         playlistUrl |-> <<"/">> \o sessionId \o <<".m3u8">>,
                         stats |-> Stats(result)])
    /\ EndCall
    /\ UNCHANGED <<manifestVars, r2Env, now, md5, prevRun, selVars,
                   manifestFile, proc, timerDue, tok, browserVars, lookup>>

\* faulty variant: a failed generation is answered like a successful one
ErrorStatus_OK(err) == 200

\* line 495: res.status(500)
ErrorStatus(err) == 500

\* POST /generate, lines 493-496: generatePlaylist threw
PostFail ==
    /\ proc = "listening"
    /\ pc = "error"
    /\ resp' = Response("POST /generate", sessionId, ErrorStatus(error),
                 [kind |-> "json", error |-> "Failed to generate playlist"])
    /\ EndCall
    /\ UNCHANGED <<manifestVars, r2Env, now, md5, prevRun, selVars,
                   manifestFile, proc, sessions, timerDue, tok, browserVars, lookup>>

\* faulty variant: the script is sent in place of the playlist
Served_Script(session) == session.script

\* line 512: res.send(session.playlist)
Served(session) == session.playlist

\* GET /:sessionId.m3u8, lines 500-513
GetPlaylist(sid) ==
    /\ Ready
    /\ IF sid \notin DOMAIN sessions
       THEN /\ resp' = Response("GET /:sessionId.m3u8", sid, 404,
                         [kind |-> "text", text |-> "Session not found"])
            /\ sessions' = sessions
       ELSE /\ sessions' = [sessions EXCEPT ![sid].lastAccessed = <<now>>]
            /\ resp' = Response("GET /:sessionId.m3u8", sid, 200,
                         [kind |-> "m3u8", lines |-> Served(sessions[sid])])
    /\ UNCHANGED <<manifestVars, r2Env, now, md5, pc, error, runVars, prevRun, selVars,
                   manifestFile, proc, timerDue, tok, browserVars, lookup>>

\* GET /session/:sessionId, lines 516-533
GetSession(sid) ==
    /\ Ready
    /\ resp' = IF sid \notin DOMAIN sessions
               THEN Response("GET /session/:sessionId", sid, 404,
                        [kind |-> "json", error |-> "Session not found"])
               ELSE Response("GET /session/:sessionId", sid, 200,
                        [kind |-> "json", sessionId |-> sid,
                         created |-> sessions[sid].created,
                         totalTokens |-> Len(sessions[sid].tokens),
                         matchedPhrases |-> Len(sessions[sid].matches),
                         clips |-> Len(sessions[sid].script),
                         duration |-> SumDurations(sessions[sid].script),
                         script |-> sessions[sid].script])
    /\ UNCHANGED <<manifestVars, r2Env, now, md5, pc, error, runVars, prevRun, selVars,
                   manifestFile, proc, sessions, timerDue, tok, browserVars, lookup>>

\* GET /health, lines 446-452
Health ==
    /\ Ready
    /\ resp' = Response("GET /health", <<>>, 200,
                 [kind |-> "json", status |-> "healthy",
                  sessions |-> Cardinality(DOMAIN sessions)])
    /\ UNCHANGED <<manifestVars, r2Env, now, md5, pc, error, runVars, prevRun, selVars,
                   manifestFile, proc, sessions, timerDue, tok, browserVars, lookup>>

\* faulty variant: a session is dropped as soon as its age reaches the TTL
Expired_AtTTL(session, t) == t - session.created >= sessionTTL

\* faulty variant: the age is counted from the last GET of the playlist
Expired_SinceLastAccess(session, t) ==
    t - (IF session.lastAccessed # <<>> THEN session.lastAccessed[1] ELSE session.created)
        > sessionTTL

\* line 431: now - session.created > CONFIG.sessionTTL
Expired(session, t) == t - session.created > sessionTTL

\* lines 428-436: the setInterval callback, run at or after the time it is due
Cleanup ==
    /\ Ready
    /\ now >= timerDue
    /\ sessions' = [s \in {k \in DOMAIN sessions : ~Expired(sessions[k], now)} |->
                        sessions[s]]
    /\ timerDue' = now + cleanupInterval
    /\ resp' = Response("cleanup", <<>>, 0,
                 [kind |-> "log",
                  cleaned |-> {k \in DOMAIN sessions : Expired(sessions[k], now)}])
    /\ UNCHANGED <<manifestVars, r2Env, now, md5, pc, error, runVars, prevRun, selVars,
                   manifestFile, proc, tok, browserVars, lookup>>

\* the steps by which the model lets time pass between two handlers: the
\* clock shows 0..MaxClock ms, or that much past one sessionTTL
TickSteps == {1, sessionTTL}

Tick(d) ==
    /\ Ready
    /\ now + d <= sessionTTL + MaxClock
    /\ (now + d) % sessionTTL <= MaxClock
    /\ now' = now + d
    /\ UNCHANGED <<manifestVars, r2Env, md5, pc, error, runVars, prevRun, selVars,
                   otherVars>>

NextServer ==
    \/ LoadManifest
    \/ Listen
    \/ \E sid \in SessionIds : PostGenerate(sid)
    \/ \E sid \in SessionIds : PostGenerateThrow(sid)
    \/ MatchStep
    \/ MatchReturn
    \/ ScriptMatch
    \/ ScriptToken
    \/ ScriptReturn
    \/ Build
    \/ PostStore
    \/ PostFail
    \/ \E sid \in SessionIds : GetPlaylist(sid)
    \/ \E sid \in SessionIds : GetSession(sid)
    \/ Health
    \/ Cleanup
    \/ \E d \in TickSteps : Tick(d)

SpecServer == InitServer /\ [][NextServer]_vars

\* POST /generate requests only, in any number and order, of a server that
\* has loaded a manifest whose pools share clips
RequestTokenSeqs ==
    { <<T_good, T_good, T_morning>>, <<T_morning, T_good, T_morning>>,
      <<T_good, T_dot, T_good>> }

InitRequests ==
    /\ manifestFile \in
        { [kind |-> "json", manifest |-> ManifestB, fixedTokens |-> ft] :
            ft \in {Undefined} \cup {Array(ts) : ts \in RequestTokenSeqs} }
    /\ proc = "listening"
    /\ phraseMap = manifestFile.manifest.phraseMap
    /\ phraseClips = manifestFile.manifest.phraseClips
    /\ staticClips = manifestFile.manifest.staticClips
    /\ fixedTokens = manifestFile.fixedTokens
    /\ r2Env = Undefined
    /\ sessions = NoSessions
    /\ timerDue = cleanupInterval
    /\ resp = NoResponse
    /\ InitRun
    /\ now = 0
    /\ md5 = [k \in {} |-> 0]
    /\ pc = "idle"
    /\ error = "none"
    /\ prevRun = NoRun
    /\ sel = NoCall
    /\ tok = NoText
    /\ NoBrowser
    /\ lookup = NoLookup

NextRequests ==
    \/ \E sid \in SessionIds : PostGenerate(sid)
    \/ \E sid \in SessionIds : PostGenerateThrow(sid)
    \/ MatchStep
    \/ MatchReturn
    \/ ScriptMatch
    \/ ScriptToken
    \/ ScriptReturn
    \/ Build
    \/ PostStore
    \/ PostFail

SpecRequests == InitRequests /\ [][NextRequests]_vars

----------------------------------------------------------------------------
(* The session store over more than one sessionTTL, with the cleanup callback
   run when it is due: time passes by 1 ms right after a timer date, or up to
   the next timer date, and not past a timer date whose callback is pending *)

ExpirySessionIds == {<<"a", "1">>}

ExpiryHorizon == sessionTTL + 2 * cleanupInterval + MaxClock

InitExpiry ==
    /\ manifestFile = [kind |-> "json", manifest |-> ManifestC,
                       fixedTokens |-> Array(<<T_morning, T_dot>>)]
    /\ proc = "listening"
    /\ phraseMap = manifestFile.manifest.phraseMap
    /\ phraseClips = manifestFile.manifest.phraseClips
    /\ staticClips = manifestFile.manifest.staticClips
    /\ fixedTokens = manifestFile.fixedTokens
    /\ r2Env = Undefined
    /\ sessions = NoSessions
    /\ timerDue = cleanupInterval
    /\ resp = NoResponse
    /\ InitRun
    /\ now = 0
    /\ md5 = [k \in {} |-> 0]
    /\ pc = "idle"
    /\ error = "none"
    /\ prevRun = NoRun
    /\ sel = NoCall
    /\ tok = NoText
    /\ NoBrowser
    /\ lookup = NoLookup

TickToTimer(d) ==
    /\ Ready
    /\ now < timerDue
    /\ d = 1 => now % cleanupInterval < MaxClock
    /\ d # 1 => d = timerDue - now
    /\ now + d <= ExpiryHorizon
    /\ now' = now + d
    /\ UNCHANGED <<manifestVars, r2Env, md5, pc, error, runVars, prevRun, selVars,
                   otherVars>>

NextExpiry ==
    \/ \E sid \in ExpirySessionIds : PostGenerate(sid)
    \/ MatchStep
    \/ MatchReturn
    \/ ScriptToken
    \/ ScriptReturn
    \/ Build
    \/ PostStore
    \/ \E sid \in ExpirySessionIds : GetPlaylist(sid)
    \/ \E sid \in ExpirySessionIds : GetSession(sid)
    \/ Cleanup
    \/ \E d \in {1, timerDue - now} : TickToTimer(d)

SpecExpiry == InitExpiry /\ [][NextExpiry]_vars

----------------------------------------------------------------------------
(* generateScript as a function of its arguments: what one call, given a
   fresh set of used file names, returns for these tokens, matches and session
   id under the digests computed so far *)

RECURSIVE ScriptFrom(_, _, _, _, _, _)
ScriptFrom(toks, ms, sid, pos, used, acc) ==
    IF pos >= Len(toks) THEN acc
    ELSE IF FindMatch(ms, pos) > 0
    THEN LET match == ms[FindMatch(ms, pos)]
             availableClips == AvailableClips(match.phrase)
             seedStr == sid \o match.phrase
         IN  IF SelectReturnsNull(availableClips)
             THEN ScriptFrom(toks, ms, sid, ScriptAdvance(match), used, acc)
             ELSE IF SelectThrows(availableClips) \/ seedStr \notin DOMAIN md5
             THEN acc
             ELSE LET clip == SelectedClip(availableClips.items, used, md5[seedStr])
                  IN  ScriptFrom(toks, ms, sid, ScriptAdvance(match),
                          used \cup {clip.filename},
                          Append(acc, Item(Join(Slice(toks, match.start, match.end)),
                                           clip, "phrase")))
    ELSE IF pos \notin Covered(ms) /\ Truthy(GetStaticClip(toks[pos + 1]))
    THEN ScriptFrom(toks, ms, sid, pos + 1, used,
             Append(acc, Item(toks[pos + 1], GetStaticClip(toks[pos + 1]), "static")))
    ELSE ScriptFrom(toks, ms, sid, pos + 1, used, acc)

----------------------------------------------------------------------------
(* generatePlaylist on token sequences longer than maxPhraseLength, with
   phrases of 2, of maxPhraseLength and of maxPhraseLength + 1 words *)

Goods(n) == [k \in 1..n |-> T_good]

LongPhrases == {Join(Goods(2)), Join(Goods(maxPhraseLength)), Join(Goods(maxPhraseLength + 1))}

ManifestE ==
    [ phraseMap |-> Obj([k \in LongPhrases |-> True]),
      phraseClips |-> Obj([k \in LongPhrases |-> Array(<<Clip("goods.ts", 30000)>>)]),
      staticClips |->
          [ words |-> Obj([k \in {T_good} |-> Clip("good.ts", 5000)]),
            punctuation |-> Obj([k \in {T_dot} |-> Clip("dot.ts", 1500)]) ] ]

\* n times the word, with a period put at position p when p < n
LongTokenSeqs ==
    { [k \in 1..n |-> IF k = p + 1 THEN T_dot ELSE T_good] :
        n \in 0..(maxPhraseLength + MaxTokens), p \in 0..(maxPhraseLength + MaxTokens) }

InitLong ==
    /\ phraseMap = ManifestE.phraseMap
    /\ phraseClips = ManifestE.phraseClips
    /\ staticClips = ManifestE.staticClips
    /\ fixedTokens \in {Undefined} \cup {Array(ts) : ts \in LongTokenSeqs}
    /\ r2Env = Undefined
    /\ InitRest

SpecLong == InitLong /\ [][Next]_vars

----------------------------------------------------------------------------
(* normalizeAndTokenize(text). A text is a sequence of characters; a
   character outside ASCII, the grave accent and the double quote are written
   by their code points ("U+2019", "U+0060", "U+0022"). *)

ZeroWidth == {"U+FEFF", "U+200B", "U+200C", "U+200D"}

\* lines 69-72: the four replace calls
StripZeroWidth(text) == SelectSeq(text, LAMBDA c : c \notin ZeroWidth)

\* lines 75-94: quoteMap, applied by replaceAll
QuoteMap(c) ==
    CASE c \in {"U+2018", "U+2019", "U+201A", "U+201B", "U+2032", "U+0060", "U+00B4"} -> "'"
      [] c \in {"U+201C", "U+201D", "U+201E", "U+201F", "U+2033"} -> "U+0022"
      [] c \in {"U+2013", "U+2014"} -> "-"
      [] OTHER -> c

MapQuotes(text) == [k \in 1..Len(text) |-> QuoteMap(text[k])]

\* text.normalize('NFD'): the canonical decomposition of a character (Unicode
\* character database): U+00E9 is e + U+0301, U+1FEF GREEK VARIA is U+0060,
\* U+1FFD GREEK OXIA is U+00B4; the other characters of the model have none
Decomposition(c) ==
    CASE c = "U+00E9" -> <<"e", "U+0301">>
      [] c = "U+1FEF" -> <<"U+0060">>
      [] c = "U+1FFD" -> <<"U+00B4">>
      [] OTHER -> <<c>>

RECURSIVE NFD(_)
NFD(text) == IF Len(text) = 0 THEN <<>> ELSE Decomposition(Head(text)) \o NFD(Tail(text))

\* .replace(/[\u0300-\u036f]/g, '')
StripMarks(text) == SelectSeq(text, LAMBDA c : c # "U+0301")

Capitals == <<"A", "B", "C", "D", "E", "F", "G", "H", "I", "J", "K", "L", "M",
              "N", "O", "P", "Q", "R", "S", "T", "U", "V", "W", "X", "Y", "Z">>
Smalls == <<"a", "b", "c", "d", "e", "f", "g", "h", "i", "j", "k", "l", "m",
            "n", "o", "p", "q", "r", "s", "t", "u", "v", "w", "x", "y", "z">>

\* text.toLowerCase()
ToLowerCase(text) ==
    [k \in 1..Len(text) |->
        IF text[k] \in Upper
        THEN Smalls[CHOOSE n \in 1..26 : Capitals[n] = text[k]]
        ELSE text[k]]

\* [\w'-]
IsTokenChar(c) == IsWordChar(c) \/ c \in {"'", "-"}

\* text.match(/[\w'-]+|[^\w\s'-]/g) || []: from left to right, a longest run
\* of word characters, or one character that is neither of a word nor space
RECURSIVE MatchTokens(_, _, _)
MatchTokens(text, word, acc) ==
    IF Len(text) = 0
    THEN IF Len(word) > 0 THEN Append(acc, word) ELSE acc
    ELSE IF IsTokenChar(Head(text))
    THEN MatchTokens(Tail(text), Append(word, Head(text)), acc)
    ELSE LET sofar == IF Len(word) > 0 THEN Append(acc, word) ELSE acc
         IN  IF IsSpace(Head(text))
             THEN MatchTokens(Tail(text), <<>>, sofar)
             ELSE MatchTokens(Tail(text), <<>>, Append(sofar, <<Head(text)>>))

NormalizeAndTokenize(text) ==
    MatchTokens(ToLowerCase(StripMarks(NFD(MapQuotes(StripZeroWidth(text))))), <<>>, <<>>)

\* the characters the model writes texts with
TextChars == {"a", "B", " ", ".", "'", "-", "U+0060", "U+2019", "U+2014", "U+200B",
              "U+00E9", "U+1FEF"}

Texts == UNION {[1..n -> TextChars] : n \in 0..MaxText}

InitTokenize ==
    /\ InitManifest({ManifestD}, {Undefined})
    /\ fixedTokens = Undefined
    /\ InitRun
    /\ now = 0
    /\ md5 = [k \in {} |-> 0]
    /\ pc = "tokenize"
    /\ error = "none"
    /\ prevRun = NoRun
    /\ sel = NoCall
    /\ NoServer
    /\ NoBrowser
    /\ lookup = NoLookup
    /\ tok \in {[stage |-> "text", text |-> t] : t \in Texts}

\* tokens = normalizeAndTokenize(text)
Tokenize ==
    /\ tok.stage = "text"
    /\ tok' = [stage |-> "tokens", text |-> tok.text,
               tokens |-> NormalizeAndTokenize(tok.text)]
    /\ UNCHANGED <<manifestVars, r2Env, now, md5, pc, error, runVars, prevRun, selVars,
                   serverVars, browserVars, lookup>>

\* again = normalizeAndTokenize(tokens.join(' '))
TokenizeAgain ==
    /\ tok.stage = "tokens"
    /\ tok' = [stage |-> "again", text |-> tok.text, tokens |-> tok.tokens,
               again |-> NormalizeAndTokenize(Join(tok.tokens))]
    /\ UNCHANGED <<manifestVars, r2Env, now, md5, pc, error, runVars, prevRun, selVars,
                   serverVars, browserVars, lookup>>

NextTokenize == Tokenize \/ TokenizeAgain

SpecTokenize == InitTokenize /\ [][NextTokenize]_vars

----------------------------------------------------------------------------
(* The generator page (src/unnamed/part_002). A generateVideo call is named by
   the number of the click that started it; its interval timer and the Hls
   instance its loadVideo creates carry the same number; 0 stands for null. *)

Containers == {"inputContainer", "loadingContainer", "playerContainer", "errorContainer"}

\* faulty variant: the class is added to the container, no other is cleared
ShowContainer_AddOnly(act, container) == act \cup {container}

\* showContainer(container): the containers with the class 'active' afterwards
ShowContainer(act, container) ==
    (act \cup {name \in Containers : name = container})
        \ {name \in Containers : name # container}

\* the page after showContainer(container), called in the handling of event
Show(f, container, event) ==
    [f EXCEPT !.active = ShowContainer(f.active, container),
              !.shown = container, !.event = event]

\* whether Hls.isSupported(), else whether the video element plays HLS natively
Supports == {"hls.js", "native", "none"}

InitFront ==
    /\ InitManifest({ManifestD}, {Undefined})
    /\ fixedTokens = Undefined
    /\ InitRun
    /\ now = 0
    /\ md5 = [k \in {} |-> 0]
    /\ pc = "page"
    /\ error = "none"
    /\ prevRun = NoRun
    /\ sel = NoCall
    /\ NoServer
    /\ tok = NoText
    /\ lookup = NoLookup
    /\ player = [kind |-> "none"]
    /\ \E act \in {a \in SUBSET Containers : Cardinality(a) <= 1}, support \in Supports :
        front = [kind |-> "page", active |-> act, shown |-> "none", event |-> "none",
                 support |-> support, clicks |-> 0,
                 calls |-> [n \in 1..MaxClicks |-> [stage |-> "none", data |-> <<>>]],
                 resolved |-> {}, timers |-> {}, loadingInterval |-> 0,
                 currentSession |-> <<>>, hls |-> 0, live |-> {}]

FrontUnchanged ==
    UNCHANGED <<manifestVars, r2Env, now, md5, pc, error, runVars, prevRun, selVars,
                serverVars, tok, player, lookup>>

\* the click on the landing page: generateVideo() up to its first await
ClickGenerate ==
    /\ front.clicks < MaxClicks
    /\ LET n == front.clicks + 1
       IN  front' = [Show(front, "loadingContainer", "click") EXCEPT
                        !.clicks = n,
                        !.calls[n] = [stage |-> "fetch", data |-> <<>>],
                        !.timers = @ \cup {n},
                        !.loadingInterval = n]
    /\ FrontUnchanged

\* the fetch of call n answers 200 with data: currentSession = data, then the
\* call awaits loadingPromise
FetchOk(n, data) ==
    /\ front.calls[n].stage = "fetch"
    /\ front' = [front EXCEPT !.calls[n] = [stage |-> "loading", data |-> data],
                              !.currentSession = data, !.event = "fetched"]
    /\ FrontUnchanged

\* the fetch of call n fails or answers with an error status: the catch block
FetchFail(n) ==
    /\ front.calls[n].stage = "fetch"
    /\ front' = [Show(front, "errorContainer", "fetch failed") EXCEPT
                    !.calls[n] = [stage |-> "over", data |-> <<>>],
                    !.timers = @ \ {front.loadingInterval},
                    !.loadingInterval = 0]
    /\ FrontUnchanged

\* the interval callback of call n finds progress >= 100:
\* clearInterval(loadingInterval), loadingInterval = null, resolve()
LoadingComplete(n) ==
    /\ n \in front.timers
    /\ front' = [front EXCEPT !.timers = @ \ {front.loadingInterval},
                              !.loadingInterval = 0,
                              !.resolved = @ \cup {n},
                              !.event = "loading complete"]
    /\ FrontUnchanged

\* await loadingPromise returns in call n, which then waits 300 ms
LoadingAwaited(n) ==
    /\ front.calls[n].stage = "loading"
    /\ n \in front.resolved
    /\ front' = [front EXCEPT !.calls[n].stage = "delay", !.event = "awaited"]
    /\ FrontUnchanged

\* faulty variant: the previous instance is left alive
DestroyPrevious_Keep(f) == f

\* if (hls) { hls.destroy(); hls = null; }
DestroyPrevious(f) == [f EXCEPT !.hls = 0, !.live = @ \ {f.hls}]

\* loadVideo: the previous Hls instance is destroyed; then a new one is made,
\* or the video element is given the URL, or the browser plays no HLS
LoadVideo(f, n) ==
    LET g == DestroyPrevious(f)
    IN  CASE f.support = "hls.js" ->
                Show([g EXCEPT !.hls = n, !.live = @ \cup {n}], "playerContainer", "loaded")
          [] f.support = "native" -> Show(g, "playerContainer", "loaded")
          [] OTHER -> Show(g, "errorContainer", "loaded")

\* the 300 ms are over in call n: loadVideo(data.playlistUrl, ...)
DelayOver(n) ==
    /\ front.calls[n].stage = "delay"
    /\ front' = [LoadVideo(front, n) EXCEPT !.calls[n].stage = "over"]
    /\ FrontUnchanged

HlsErrorTypes == {"networkError", "mediaError", "otherError"}

\* the ERROR handler of loadVideo, for an event of a live instance
FrontHlsError(fatal, type) ==
    /\ front.live # {}
    /\ front' = IF fatal /\ type \notin {"networkError", "mediaError"}
                THEN Show(front, "errorContainer", "fatal error")
                ELSE [front EXCEPT !.event = IF fatal THEN "recovering" ELSE "error ignored"]
    /\ FrontUnchanged

\* reset(): the click on "generate another" or on "try again"
Reset ==
    /\ front' = [Show(front, "inputContainer", "reset") EXCEPT
                    !.currentSession = <<>>,
                    !.hls = 0,
                    !.live = @ \ {front.hls}]
    /\ FrontUnchanged

NextFront ==
    \/ ClickGenerate
    \/ \E n \in 1..MaxClicks, data \in SessionIds : FetchOk(n, data)
    \/ \E n \in 1..MaxClicks : FetchFail(n)
    \/ \E n \in 1..MaxClicks : LoadingComplete(n)
    \/ \E n \in 1..MaxClicks : LoadingAwaited(n)
    \/ \E n \in 1..MaxClicks : DelayOver(n)
    \/ \E fatal \in BOOLEAN, type \in HlsErrorTypes : FrontHlsError(fatal, type)
    \/ Reset

SpecFront == InitFront /\ [][NextFront]_vars

----------------------------------------------------------------------------
(* HLSPlayer (src/player.js) *)

InitPlayer ==
    /\ InitManifest({ManifestD}, {Undefined})
    /\ fixedTokens = Undefined
    /\ InitRun
    /\ now = 0
    /\ md5 = [k \in {} |-> 0]
    /\ pc = "player"
    /\ error = "none"
    /\ prevRun = NoRun
    /\ sel = NoCall
    /\ NoServer
    /\ tok = NoText
    /\ lookup = NoLookup
    /\ front = [kind |-> "none"]
    /\ \E support \in Supports :
        player = [kind |-> "player", hls |-> IF support = "hls.js" THEN 1 ELSE 0,
                  support |-> support, last |-> "new", startLoad |-> 0,
                  recoverMediaError |-> 0, destroyed |-> 0]

PlayerUnchanged ==
    UNCHANGED <<manifestVars, r2Env, now, md5, pc, error, runVars, prevRun, selVars,
                serverVars, tok, front, lookup>>

\* faulty variant: a media error is not recovered from but ends the player
OnFatal_MediaDestroys(type) ==
    CASE type = "networkError" -> "startLoad"
      [] OTHER -> "destroy"

\* the switch of the ERROR handler, lines 27-37
OnFatal(type) ==
    CASE type = "networkError" -> "startLoad"
      [] type = "mediaError" -> "recoverMediaError"
      [] OTHER -> "destroy"

\* destroy(), lines 55-60
Destroyed(pl) ==
    IF pl.hls # 0 THEN [pl EXCEPT !.hls = 0, !.destroyed = @ + 1] ELSE pl

\* the ERROR handler, lines 24-39, for an event of the instance
PlayerError(fatal, type) ==
    /\ player.hls # 0
    /\ player.startLoad + player.recoverMediaError < MaxEvents
    /\ LET event == (IF fatal THEN "fatal " ELSE "") \o type
       IN  player' =
             IF ~fatal THEN [player EXCEPT !.last = event]
             ELSE CASE OnFatal(type) = "startLoad" ->
                          [player EXCEPT !.last = event, !.startLoad = @ + 1]
                    [] OnFatal(type) = "recoverMediaError" ->
                          [player EXCEPT !.last = event, !.recoverMediaError = @ + 1]
                    [] OTHER -> [Destroyed(player) EXCEPT !.last = event]
    /\ PlayerUnchanged

\* player.destroy(), called by the page
PlayerDestroy ==
    /\ player' = [Destroyed(player) EXCEPT
                    !.last = IF player.last \in {"destroy", "destroy again"}
                             THEN "destroy again" ELSE "destroy"]
    /\ PlayerUnchanged

NextPlayer ==
    \/ \E fatal \in BOOLEAN, type \in HlsErrorTypes : PlayerError(fatal, type)
    \/ PlayerDestroy

SpecPlayer == InitPlayer /\ [][NextPlayer]_vars

----------------------------------------------------------------------------
(* getStaticClip(token) called on its own, on static tables with and without
   the straight quotes, the hyphen and the period *)

StaticTables ==
    { [ words |-> Obj([k \in {T_good, <<"i", "t", "_", "s">>} |->
                        IF k = T_good THEN Clip("good.ts", 5000) ELSE Clip("it_s.ts", 4000)]),
        punctuation |-> Obj([k \in {<<".">>, <<"U+0022">>, <<"'">>, <<"-">>} |->
                        CASE k = <<".">> -> Clip("dot.ts", 1500)
                          [] k = <<"U+0022">> -> Clip("quote.ts", 1600)
                          [] k = <<"'">> -> Clip("apostrophe.ts", 1700)
                          [] OTHER -> Clip("dash.ts", 1800)]) ],
      [ words |-> Obj(EmptyProps),
        punctuation |-> Obj([k \in {<<"U+0022">>, <<"-">>} |->
                        IF k = <<"-">> THEN Clip("dash.ts", 1800) ELSE Clip("quote.ts", 1600)]) ],
      [ words |-> Undefined, punctuation |-> Obj(EmptyProps) ] }
    \cup {m.staticClips : m \in Manifests}

StaticTokens ==
    { <<".">>, <<",">>, <<"!">>, <<"U+0022">>, <<"'">>, <<"-">>,
      <<"U+201C">>, <<"U+201D">>, <<"U+2018">>, <<"U+2019">>, <<"U+2014">>, <<"U+2013">>,
      T_good, T_morning, T_constructor, <<"i", "t", "'", "s">>, <<"G", "o", "o", "d">>,
      <<"g", "o", "-", "o", "d">> }

InitStatic ==
    /\ phraseMap = Obj(EmptyProps)
    /\ phraseClips = Obj(EmptyProps)
    /\ staticClips \in StaticTables
    /\ fixedTokens = Undefined
    /\ r2Env = Undefined
    /\ InitRun
    /\ now = 0
    /\ md5 = [k \in {} |-> 0]
    /\ pc = "static"
    /\ error = "none"
    /\ prevRun = NoRun
    /\ sel = NoCall
    /\ NoServer
    /\ tok = NoText
    /\ NoBrowser
    /\ lookup = NoLookup

\* this.getStaticClip(token)
StaticLookup(token) ==
    /\ pc = "static"
    /\ lookup' = [kind |-> "static", token |-> token, result |-> GetStaticClip(token)]
    /\ UNCHANGED <<manifestVars, r2Env, now, md5, pc, error, runVars, prevRun, selVars,
                   serverVars, tok, browserVars>>

NextStatic == \E token \in StaticTokens : StaticLookup(token)

SpecStatic == InitStatic /\ [][NextStatic]_vars

----------------------------------------------------------------------------
(* Claims *)

\* greedyMatchPhrases has returned
Matched == pc \in {"script", "build", "done"}

\* C1: the matches of greedyMatchPhrases are sorted by strictly increasing
\* start, each has end > start, and each starts at or after the end of the
\* one before it (no two half-open ranges [start, end) overlap)
C1_MatchesSortedDisjoint ==
    \A n \in 1..Len(matches) :
        /\ matches[n].end > matches[n].start
        /\ n > 1 => /\ matches[n].start > matches[n - 1].start
                    /\ matches[n].start >= matches[n - 1].end

\* two matches were returned, the first longer than one token
C1_Witness ==
    /\ Matched
    /\ Len(matches) >= 2
    /\ matches[1].end - matches[1].start >= 2

\* the claim's candidate: L consecutive non-punctuation tokens from p whose
\* space-join is a key of phraseMap with a non-empty pool in phraseClips
Qualifies(p, L) ==
    /\ L >= 1
    /\ p + L <= Len(tokens)
    /\ \A k \in p..(p + L - 1) : ~IsPunctuation(tokens[k + 1])
    /\ LET candidate == Join(Slice(tokens, p, p + L))
       IN  /\ candidate \in DOMAIN phraseMap.props
           /\ candidate \in DOMAIN phraseClips.props
           /\ phraseClips.props[candidate].kind = "array"
           /\ Len(phraseClips.props[candidate].items) > 0

\* the positions the scan has passed
Scanned == IF pc = "match" THEN 0..(i - 1) ELSE 0..(Len(tokens) - 1)

\* C2: longest match wins. No length above a recorded match's length (up to
\* min(maxPhraseLength, tokens.length - start)) yields a qualifying candidate
\* at its start; at a scanned non-punctuation position where no match was
\* recorded no length yields one; and phrases {"good morning", "morning"} with
\* tokens [good, morning] give the single match {"good morning", 0, 2}
C2_LongestMatchWins ==
    /\ \A n \in 1..Len(matches) :
        \A L \in 1..Min(maxPhraseLength, Len(tokens) - matches[n].start) :
            L > matches[n].end - matches[n].start => ~Qualifies(matches[n].start, L)
    /\ \A p \in Scanned :
        (~IsPunctuation(tokens[p + 1]) /\ p \notin Covered(matches))
            => \A L \in 1..Min(maxPhraseLength, Len(tokens) - p) : ~Qualifies(p, L)
    /\ (Matched /\ phraseMap = ManifestA.phraseMap /\ phraseClips = ManifestA.phraseClips
            /\ tokens = <<T_good, T_morning>>)
        => matches = <<[phrase |-> P_good_morning, start |-> 0, end |-> 2]>>

\* a two-token match was recorded where the one-token phrase qualifies too
C2_Witness ==
    /\ Matched
    /\ \E n \in 1..Len(matches) :
        /\ matches[n].end - matches[n].start = 2
        /\ Qualifies(matches[n].start, 1)

\* generateScript has ended: it returned, or it threw
ScriptReturned == pc \in {"build", "done"}
ScriptThrew == pc = "error" /\ error = "availableClips.filter is not a function"

\* the matches whose range holds position p
MatchesAt(p) == {n \in 1..Len(matches) : matches[n].start <= p /\ p < matches[n].end}

\* position p was handled exactly one way
HandledOnce(p) ==
    \/ Cardinality(MatchesAt(p)) = 1 /\ staticCalls[p] = 0
    \/ Cardinality(MatchesAt(p)) = 0 /\ staticCalls[p] = 1

\* C3: coverage completeness. Once generateScript has ended on the matches of
\* greedyMatchPhrases, every token index lies in exactly one match range and
\* had no getStaticClip call, or lies in none and had exactly one
C3_CoverageComplete ==
    (ScriptReturned \/ ScriptThrew) => \A p \in 0..(Len(tokens) - 1) : HandledOnce(p)

\* the same, of the calls of generateScript that return
C3_CoverageWhenReturned ==
    ScriptReturned => \A p \in 0..(Len(tokens) - 1) : HandledOnce(p)

\* the elements of a set of numbers in increasing order
RECURSIVE Ascending(_)
Ascending(S) ==
    IF S = {} THEN <<>>
    ELSE LET least == CHOOSE x \in S : \A y \in S : x <= y
         IN  <<least>> \o Ascending(S \ {least})

\* the starts of the matches and the uncovered positions, in token order
Units ==
    Ascending({p \in 0..(Len(tokens) - 1) :
                  p \notin Covered(matches) \/ \E n \in 1..Len(matches) : matches[n].start = p})

\* every matched phrase has a pool of clips and every uncovered token a static clip
AllResolve ==
    /\ \A n \in 1..Len(matches) :
        /\ matches[n].phrase \in DOMAIN phraseClips.props
        /\ phraseClips.props[matches[n].phrase].kind = "array"
        /\ Len(phraseClips.props[matches[n].phrase].items) > 0
    /\ \A p \in 0..(Len(tokens) - 1) :
        p \notin Covered(matches) => GetStaticClip(tokens[p + 1]).kind = "clip"

\* script[k] is the item of the unit at position p
ItemOfUnit(item, p) ==
    IF \E n \in 1..Len(matches) : matches[n].start = p
    THEN LET match == matches[CHOOSE n \in 1..Len(matches) : matches[n].start = p]
             pool == phraseClips.props[match.phrase].items
         IN  /\ item.type = "phrase"
             /\ item.text = Join(Slice(tokens, match.start, match.end))
             /\ \E c \in 1..Len(pool) :
                 item.filename = pool[c].filename /\ item.duration = pool[c].duration
    ELSE /\ item.type = "static"
         /\ item.text = tokens[p + 1]
         /\ item.filename = GetStaticClip(tokens[p + 1]).filename
         /\ item.duration = GetStaticClip(tokens[p + 1]).duration

\* C4: end to end. When every matched phrase and every uncovered token
\* resolves to a clip, generatePlaylist returns, and its script is the matches
\* and the uncovered tokens in token order, one item each: a 'phrase' item with
\* the joined tokens of the match and a clip of the phrase's pool, a 'static'
\* item with the token and its static clip. Tokens [good, morning, good] with
\* phrase "good morning" -> gm1.ts (2.0 s) and static good -> good.ts (0.5 s)
\* give [phrase gm1.ts, static good.ts], 2.5 s in total
C4_ScriptEndToEnd ==
    /\ (pc = "done" /\ AllResolve) =>
        /\ Len(script) = Len(Units)
        /\ \A k \in 1..Len(script) : ItemOfUnit(script[k], Units[k])
    /\ (pc = "error" /\ Truthy(fixedTokens)) => ~AllResolve
    /\ (pc = "done" /\ phraseMap = ManifestA.phraseMap /\ phraseClips = ManifestA.phraseClips
            /\ staticClips = ManifestA.staticClips /\ tokens = <<T_good, T_morning, T_good>>)
        => /\ script = << [text |-> P_good_morning, filename |-> "gm1.ts",
                           duration |-> 20000, type |-> "phrase"],
                          [text |-> T_good, filename |-> "good.ts",
                           duration |-> 5000, type |-> "static"] >>
           /\ SumDurations(script) = 25000

\* a returned script with a phrase item followed by a static item
C4_Witness ==
    /\ pc = "done"
    /\ AllResolve
    /\ Len(script) >= 2
    /\ script[1].type = "phrase"
    /\ script[2].type = "static"

\* the pool is empty or absent
PoolEmpty(pool) ==
    pool.kind \in {"undefined", "null"} \/ (pool.kind = "array" /\ Len(pool.items) = 0)

\* C5: selectClip returns null exactly when the pool is empty or absent; for
\* a non-empty pool it returns a member of the pool, also when every file
\* name of the pool is in usedFilenames already
C5_NullIffPoolEmpty ==
    sel.kind = "call" =>
        /\ sel.call.result = Null <=> PoolEmpty(sel.call.availableClips)
        /\ ~PoolEmpty(sel.call.availableClips) =>
            \E k \in 1..Len(sel.call.availableClips.items) :
                sel.call.result = sel.call.availableClips.items[k]

\* a pool of three clips, all of them used before the call, and a clip returned
C5_Witness ==
    /\ sel.kind = "call"
    /\ sel.call.availableClips.kind = "array"
    /\ Len(sel.call.availableClips.items) = 3
    /\ \A k \in 1..3 : sel.call.availableClips.items[k].filename \in sel.call.used
    /\ sel.call.result.kind = "clip"

\* C6: deterministic selection. A selectClip call given the same pool, the
\* same contents of usedFilenames and the same seed as the call before it
\* returns the same clip
C6_SameArgumentsSameClip ==
    sel.kind = "call" => sel.again # "different"

\* a call repeated with the same arguments, where the digest decides between
\* two or more candidate clips
C6_Witness ==
    /\ sel.kind = "call"
    /\ sel.again = "same"
    /\ sel.call.result.kind = "clip"
    /\ Len(SelectPool(sel.call.availableClips.items, sel.call.used)) >= 2

\* a generatePlaylist call has ended for the session id of a remembered call
CalledAgain ==
    /\ pc \in {"done", "error"}
    /\ prevRun.kind = "run"
    /\ prevRun.sessionId = sessionId

\* the playlist without its "# Generated: <time>" comment line
WithoutGenerated(lines) == SelectSeq(lines, LAMBDA l : l.kind # "# Generated: ")

\* C7 as stated: two generatePlaylist calls with the same manifest and the
\* same session id, at any two times, return identical matches, an identical
\* script and an identical playlist string
C7_RunsIdentical ==
    CalledAgain =>
        /\ prevRun.pc = pc
        /\ prevRun.matches = matches
        /\ prevRun.script = script
        /\ prevRun.playlist = playlist

\* C7, amended: the two calls end the same way (both return or both throw the
\* same error) with identical matches and an identical script, and their
\* playlists are identical line by line except for the "# Generated:" comment
\* line, which carries the time of the call
C7_RunsIdenticalButTimestamp ==
    CalledAgain =>
        /\ prevRun.pc = pc
        /\ prevRun.error = error
        /\ prevRun.matches = matches
        /\ prevRun.script = script
        /\ Len(prevRun.playlist) = Len(playlist)
        /\ WithoutGenerated(prevRun.playlist) = WithoutGenerated(playlist)

\* a second call at a later time, whose script holds a clip the digest chose
\* among two or more
C7_Witness ==
    /\ CalledAgain
    /\ pc = "done"
    /\ prevRun.playlist # playlist
    /\ \E n \in 1..Len(selected) :
        Len(SelectPool(selected[n].availableClips.items, selected[n].used)) >= 2

\* every #EXTINF line stands between a #EXT-X-DISCONTINUITY line and a URL line
ExtinfFramed(lines) ==
    \A k \in 1..Len(lines) :
        lines[k].kind = "#EXTINF:" =>
            /\ k > 1
            /\ lines[k - 1].kind = "#EXT-X-DISCONTINUITY"
            /\ k < Len(lines)
            /\ lines[k + 1].kind = ""

SegmentCount(lines) == Cardinality({k \in 1..Len(lines) : lines[k].kind = "#EXTINF:"})

\* C8 as stated: the playlist has #EXTM3U as its first line and #EXT-X-ENDLIST
\* as its last line, every #EXTINF line is framed by a discontinuity line and
\* a URL line, and there are script.length segments besides the opener
C8_PlaylistStructure ==
    pc = "done" =>
        /\ playlist[1].kind = "#EXTM3U"
        /\ playlist[Len(playlist)].kind = "#EXT-X-ENDLIST"
        /\ ExtinfFramed(playlist)
        /\ SegmentCount(playlist) - 1 = Len(script)

\* C8, amended: #EXT-X-ENDLIST is the last line but one, followed only by the
\* "# Total duration" comment line; the rest as stated
C8_PlaylistStructureTrailer ==
    pc = "done" =>
        /\ playlist[1].kind = "#EXTM3U"
        /\ playlist[Len(playlist) - 1].kind = "#EXT-X-ENDLIST"
        /\ playlist[Len(playlist)].kind = "# Total duration: "
        /\ \A k \in 1..(Len(playlist) - 2) : playlist[k].kind # "#EXT-X-ENDLIST"
        /\ ExtinfFramed(playlist)
        /\ SegmentCount(playlist) - 1 = Len(script)

\* a playlist of a script of two or more items
C8_Witness == pc = "done" /\ Len(script) >= 2

\* a URL as text: its non-empty pieces, concatenated
UrlText(parts) == SelectSeq(parts, LAMBDA x : x # "")

ClipDirs == {"/hls_clips/trimmed/", "/hls_clips/static/"}

\* the URL the claim gives a clip of this type and file name
ClaimedUrl(type, filename) ==
    LET dir == IF type = "phrase" THEN "/hls_clips/trimmed/" ELSE "/hls_clips/static/"
    IN  IF r2Env.kind = "string" THEN <<r2Env.s, dir, filename>> ELSE <<dir, filename>>

\* the URL lines of the playlist: line 10 is the opener's, line 10 + 3k item k's
UrlOfItem(k) == playlist[10 + 3 * k].parts

SiteRelative(parts) == Head(UrlText(parts)) \in ClipDirs

\* C9: a 'phrase' item resolves to .../hls_clips/trimmed/{filename}, any other
\* item to .../hls_clips/static/{filename}; the URL is prefixed with the base
\* URL when R2_BASE_URL is set and is site-relative when it is not; the opener
\* follows the same rule, so a playlist never mixes absolute and relative URLs
C9_ClipUrls ==
    pc = "done" =>
        /\ \A k \in 1..Len(script) :
            UrlText(UrlOfItem(k)) = UrlText(ClaimedUrl(script[k].type, script[k].filename))
        /\ UrlText(UrlOfItem(0)) = UrlText(ClaimedUrl("static", "opener.ts"))
        /\ r2Env.kind # "string" => \A k \in 0..Len(script) : SiteRelative(UrlOfItem(k))
        /\ \A k \in 1..Len(script) : SiteRelative(UrlOfItem(k)) <=> SiteRelative(UrlOfItem(0))

\* a playlist with a base URL configured, of a phrase item and a static item
C9_Witness ==
    /\ pc = "done"
    /\ Truthy(r2Env)
    /\ \E k \in 1..Len(script) : script[k].type = "phrase"
    /\ \E k \in 1..Len(script) : script[k].type = "static"
    /\ ~SiteRelative(UrlOfItem(0))

\* C10: lossy degradation. With fixed tokens present generatePlaylist returns
\* a playlist and a script and raises no error, whatever the tokens are
C10_NoErrorWithTokens ==
    pc = "error" => ~Truthy(fixedTokens)

\* C11: missing fixed tokens is a hard failure that leaves the state
\* unchanged. With no fixedTokens in the manifest every generatePlaylist call
\* throws "No fixed text available in manifest" before anything else runs,
\* every POST /generate is answered with status 500, and the session store
\* stays empty
C11_MissingTokensFail ==
    (proc = "listening" /\ ~Truthy(fixedTokens)) =>
        /\ pc \in {"idle", "error"}
        /\ pc = "error" => error = "No fixed text available in manifest"
        /\ resp.op = "POST /generate" => resp.status = 500
        /\ sessions = NoSessions

\* a POST /generate was answered on a manifest without fixedTokens
C11_Witness ==
    /\ proc = "listening"
    /\ ~Truthy(fixedTokens)
    /\ resp.op = "POST /generate"
    /\ resp.status = 500

\* C12: manifest load failure is fatal at start-up. When the manifest cannot
\* be read or parsed the process exits, never listens and handles no request;
\* whenever the server listens or a handler runs or has run, the manifest
\* was loaded
C12_LoadFailureFatal ==
    /\ LoadFails(manifestFile) =>
        /\ proc \in {"start", "exited"}
        /\ pc = "idle"
        /\ resp = NoResponse
    /\ (proc = "listening" \/ pc # "idle" \/ resp # NoResponse) =>
        /\ manifestFile.kind = "json"
        /\ phraseMap = manifestFile.manifest.phraseMap
        /\ phraseClips = manifestFile.manifest.phraseClips
        /\ staticClips = manifestFile.manifest.staticClips
        /\ fixedTokens = manifestFile.fixedTokens

\* the manifest is not JSON and the process has exited
C12_Witness == manifestFile.kind = "corrupt" /\ proc = "exited"

\* the file names the selectClip calls of the running call have returned
Returned == {selected[n].result.filename :
                n \in {k \in 1..Len(selected) : selected[k].result.kind = "clip"}}

\* C13: generation requests are independent. Whatever POST /generate
\* requests came before, the script of a call equals the script generateScript
\* returns for that session id on its own; the set of used file names starts
\* empty in every call and holds the file names this call selected, no others
C13_RequestsIndependent ==
    /\ pc = "done" => script = ScriptFrom(tokens, matches, sessionId, 0, {}, <<>>)
    /\ \A sid \in DOMAIN sessions :
        sessions[sid].script =
            ScriptFrom(sessions[sid].tokens, sessions[sid].matches, sid, 0, {}, <<>>)
    /\ pc \in {"script", "build", "done"} => usedClips = Returned

\* a second session is being generated after a first one with other clips
\* was stored, and the second call has used file names of its own
C13_Witness ==
    /\ pc = "done"
    /\ Len(script) >= 2
    /\ \E sid \in DOMAIN sessions :
        /\ sid # sessionId
        /\ Len(sessions[sid].script) >= 2
        /\ sessions[sid].script[1].filename # script[1].filename
        /\ sessions[sid].script[2].filename # script[2].filename

\* the step is a run of the cleanup callback
CleanupStep == resp'.op = "cleanup" /\ timerDue' # timerDue

\* C14: session eviction by TTL. A run of the cleanup task, which is due
\* cleanupInterval (5 minutes) after the one before, deletes every session
\* whose age now - created exceeds sessionTTL (1 hour) and leaves every other
\* session as it is; no other step removes a session from the store
C14_EvictionByTTL ==
    [][ /\ CleanupStep =>
            /\ now >= timerDue
            /\ timerDue' = now + 5 * 60 * 1000
            /\ \A sid \in DOMAIN sessions :
                IF now - sessions[sid].created > 60 * 60 * 1000
                THEN sid \notin DOMAIN sessions'
                ELSE sid \in DOMAIN sessions' /\ sessions'[sid] = sessions[sid]
        /\ ~CleanupStep => DOMAIN sessions \subseteq DOMAIN sessions' ]_vars

\* the cleanup has deleted a session and kept one whose age is exactly the TTL
C14_Witness ==
    /\ resp.op = "cleanup"
    /\ resp.body.cleaned # {}
    /\ \E sid \in DOMAIN sessions : now - sessions[sid].created = sessionTTL

\* the step is a GET /:sessionId.m3u8 for sid
GetStep(sid) ==
    /\ resp'.op = "GET /:sessionId.m3u8"
    /\ resp'.sessionId = sid
    /\ <<resp, sessions>>' # <<resp, sessions>>

\* the step is the answer of POST /generate to a successful generation
StoreStep == proc = "listening" /\ pc = "done" /\ pc' = "idle"

C19_MatchesAreValidPhrases ==
    \A n \in 1..Len(matches) :
        /\ matches[n].phrase = Join(Slice(tokens, matches[n].start, matches[n].end))
        /\ matches[n].phrase \in DOMAIN phraseMap.props
        /\ Truthy(phraseMap.props[matches[n].phrase])
        /\ matches[n].phrase \in DOMAIN phraseClips.props
        /\ phraseClips.props[matches[n].phrase].kind = "array"
        /\ Len(phraseClips.props[matches[n].phrase].items) >= 1

\* C20: no match contains a punctuation token or starts at one, and the
\* length end - start of a match is between 1 and maxPhraseLength (10)
C20_NoPunctuationLengthCapped ==
    \A n \in 1..Len(matches) :
        /\ \A k \in matches[n].start..(matches[n].end - 1) : ~IsPunctuation(tokens[k + 1])
        /\ matches[n].end - matches[n].start >= 1
        /\ matches[n].end - matches[n].start <= 10

\* more than maxPhraseLength words in a row, matched as a phrase of exactly
\* maxPhraseLength words, and a period elsewhere in the tokens
C20_Witness ==
    /\ Matched
    /\ \E n \in 1..Len(matches) : matches[n].end - matches[n].start = maxPhraseLength
    /\ \E k \in 1..Len(tokens) : IsPunctuation(tokens[k])
    /\ \E k \in 1..(Len(tokens) - maxPhraseLength) :
        \A j \in k..(k + maxPhraseLength) : ~IsPunctuation(tokens[j])

\* C16: tokenization is idempotent. For every text, tokenizing the
\* single-space join of normalizeAndTokenize(text) gives the same tokens
C16_TokenizeIdempotent ==
    tok.stage = "again" => tok.again = tok.tokens

\* the same, of the texts without a character whose canonical decomposition
\* is a character of quoteMap
C16_IdempotentButVaria ==
    (tok.stage = "again" /\ \A k \in 1..Len(tok.text) : tok.text[k] # "U+1FEF")
        => tok.again = tok.tokens

\* C17: at most one of the four containers carries the class 'active', and once
\* showContainer(c) has been called the active container is the c of the last
\* call: the loading container after a generate click, the error container
\* after a failed fetch or a fatal error of another type, the input container
\* after a reset.
C17_OneActiveContainer ==
    front.kind = "page" =>
        /\ Cardinality(front.active) <= 1
        /\ front.shown # "none" => front.active = {front.shown}
        /\ front.event = "click" => front.active = {"loadingContainer"}
        /\ front.event \in {"fetch failed", "fatal error"} =>
                front.active = {"errorContainer"}
        /\ front.event = "reset" => front.active = {"inputContainer"}
        /\ front.event = "loaded" =>
                front.active = {IF front.support = "none" THEN "errorContainer"
                                ELSE "playerContainer"}

\* a second generate click was followed by a load, a fatal error and a failed
\* fetch: the error container is shown after the player container was
C17_Witness ==
    /\ front.kind = "page"
    /\ front.event = "fetch failed"
    /\ front.hls # 0
    /\ front.clicks = 2
    /\ front.active = {"errorContainer"}

\* the Hls instance and the calls made on it, without the name of the last event
PlayerState(pl) == <<pl.hls, pl.startLoad, pl.recoverMediaError, pl.destroyed>>

ErrorStep(fatal, type) ==
    /\ player.kind = "player"
    /\ player.hls # 0
    /\ player'.last = (IF fatal THEN "fatal " ELSE "") \o type

\* C18: a non-fatal error changes nothing; a fatal network error calls
\* startLoad and a fatal media error calls recoverMediaError, each once and
\* keeping the instance; a fatal error of another type destroys the instance and
\* sets hls to null; destroy() destroys the instance if there is one and
\* changes nothing if hls is null already.
C18_ErrorsAndTeardown ==
    [][ /\ \A type \in HlsErrorTypes :
            ErrorStep(FALSE, type) => PlayerState(player') = PlayerState(player)
        /\ ErrorStep(TRUE, "networkError") =>
              PlayerState(player') = <<player.hls, player.startLoad + 1,
                                       player.recoverMediaError, player.destroyed>>
        /\ ErrorStep(TRUE, "mediaError") =>
              PlayerState(player') = <<player.hls, player.startLoad,
                                       player.recoverMediaError + 1, player.destroyed>>
        /\ ErrorStep(TRUE, "otherError") =>
              PlayerState(player') = <<0, player.startLoad, player.recoverMediaError,
                                       player.destroyed + 1>>
        /\ (player.kind = "player" /\ player'.last \in {"destroy", "destroy again"}) =>
              /\ player'.hls = 0
              /\ PlayerState(player') =
                    IF player.hls = 0 THEN PlayerState(player)
                    ELSE <<0, player.startLoad, player.recoverMediaError,
                           player.destroyed + 1>>
      ]_vars

\* after a network error and a media error were recovered from, destroy() was
\* called twice: the instance was destroyed once
C18_Witness ==
    /\ player.kind = "player"
    /\ player.last = "destroy again"
    /\ player.startLoad = 1
    /\ player.recoverMediaError = 1
    /\ player.destroyed = 1
    /\ player.hls = 0

\* C21: reuse avoidance in selectClip. If some clip of the pool has a file
\* name that is not in usedFilenames, the clip returned has a file name that
\* was not in usedFilenames before the call; a used file name is returned only
\* when every clip of the pool was used. After a clip is returned
\* usedFilenames holds what it held plus the file name returned; after null it
\* is unchanged.
C21_ReuseAvoidance ==
    (sel.kind = "call" /\ pc = "select") =>
        LET call == sel.call
            items == call.availableClips.items
        IN  IF call.result = Null THEN usedClips = call.used
            ELSE /\ usedClips = call.used \cup {call.result.filename}
                 /\ (\E k \in 1..Len(items) : items[k].filename \notin call.used)
                        => call.result.filename \notin call.used
                 /\ call.result.filename \in call.used
                        => \A k \in 1..Len(items) : items[k].filename \in call.used

\* a pool of three clips of which the first was used before the call: the digest
\* chose between the two others
C21_Witness ==
    /\ sel.kind = "call"
    /\ pc = "select"
    /\ sel.call.availableClips.kind = "array"
    /\ Len(sel.call.availableClips.items) = 3
    /\ sel.call.availableClips.items[1].filename \in sel.call.used
    /\ Len(Unused(sel.call.availableClips.items, sel.call.used)) = 2
    /\ sel.call.result.kind = "clip"
    /\ sel.call.result.filename \notin sel.call.used
    /\ sel.call.result.filename \in usedClips

\* the file names of the 'phrase' items that the selectClip calls before the
\* n-th one of this script produced
UsedBefore(n) ==
    {selected[m].result.filename : m \in {m2 \in 1..(n - 1) : selected[m2].result # Null}}

\* the clips of the pool have different file names, none of which is in the
\* pool of another phrase
Exclusive(pool) ==
    /\ pool.kind = "array"
    /\ \A k1, k2 \in 1..Len(pool.items) :
            pool.items[k1].filename = pool.items[k2].filename => k1 = k2
    /\ \A phrase \in DOMAIN phraseClips.props :
            (phraseClips.props[phrase] # pool /\ phraseClips.props[phrase].kind = "array") =>
                \A k \in 1..Len(pool.items), k2 \in 1..Len(phraseClips.props[phrase].items) :
                    pool.items[k].filename # phraseClips.props[phrase].items[k2].filename

\* the calls among the first n that were made for the phrase of the n-th call
Occurrences(n) == {m \in 1..n : selected[m].seedStr = selected[n].seedStr}

\* C22: within one script a 'phrase' item takes a file name that an earlier
\* 'phrase' item took only if every clip of the pool of its phrase was taken
\* before; so the first k occurrences of a phrase whose pool has k clips with
\* different names, in no other pool, get pairwise different clips.
C22_RepeatsPreferFreshClips ==
    pc \in {"script", "build", "done"} =>
        \A n \in 1..Len(selected) :
            selected[n].result # Null =>
                /\ selected[n].result.filename \in UsedBefore(n) =>
                        \A k \in 1..Len(selected[n].availableClips.items) :
                            selected[n].availableClips.items[k].filename \in UsedBefore(n)
                /\ ( /\ Exclusive(selected[n].availableClips)
                     /\ Cardinality(Occurrences(n)) <= Len(selected[n].availableClips.items) ) =>
                        \A m \in Occurrences(n) \ {n} :
                            selected[m].result.filename # selected[n].result.filename

\* the phrase with a pool of two clips occurred three times: the third item
\* has the clip of the first or of the second
C22_Witness ==
    /\ pc = "done"
    /\ Len(selected) = 3
    /\ \A n \in 1..3 : selected[n].result # Null
                       /\ Len(selected[n].availableClips.items) = 2
    /\ selected[1].result.filename # selected[2].result.filename
    /\ selected[3].result.filename \in UsedBefore(3)
    /\ Len(script) = 3

\* the number of 'phrase' items of a script: stats.phraseClips
RECURSIVE PhraseCount(_)
PhraseCount(items) ==
    IF Len(items) = 0 THEN 0
    ELSE (IF Head(items).type = "phrase" THEN 1 ELSE 0) + PhraseCount(Tail(items))

\* C23: once generateScript has ended on the matches of greedyMatchPhrases,
\* no selectClip call returned null and every match has produced one 'phrase'
\* item: the number of 'phrase' items equals matches.length.
C23_EveryMatchOneItem ==
    (ScriptReturned \/ ScriptThrew) =>
        /\ \A n \in 1..Len(selected) : selected[n].result # Null
        /\ PhraseCount(script) = Len(matches)

\* the same, of the calls of generateScript that return
C23_EveryMatchOneItemWhenReturned ==
    ScriptReturned =>
        /\ \A n \in 1..Len(selected) : selected[n].result # Null
        /\ Len(selected) = Len(matches)
        /\ PhraseCount(script) = Len(matches)

\* what the static fallback is said to look up for a punctuation token
ClaimedVariant(token) ==
    CASE token \in {<<"U+201C">>, <<"U+201D">>} -> <<"U+0022">>
      [] token \in {<<"U+2018">>, <<"U+2019">>} -> <<"'">>
      [] token \in {<<"U+2014">>, <<"U+2013">>} -> <<"-">>
      [] OTHER -> token

\* the clip that a table holds under a key, null when it holds none
Held(table, key) ==
    IF table.kind = "object" /\ key \in DOMAIN table.props THEN table.props[key] ELSE Null

\* C24: for a punctuation token getStaticClip returns the clip that
\* staticClips.punctuation holds for the token with curly double quotes read as
\* the straight double quote, curly single quotes as the apostrophe and en/em
\* dashes as the hyphen; if there is none, the clip of '.', else null. For a
\* word token it returns the clip that staticClips.words holds for the token
\* with every character outside [a-z0-9] replaced by '_', else null.
C24_StaticFallback ==
    lookup.kind = "static" =>
        IF IsPunctuation(lookup.token)
        THEN lookup.result =
                IF Held(staticClips.punctuation, ClaimedVariant(lookup.token)) # Null
                THEN Held(staticClips.punctuation, ClaimedVariant(lookup.token))
                ELSE Held(staticClips.punctuation, <<".">>)
        ELSE lookup.result = Held(staticClips.words, Slugify(lookup.token))

\* the same, for every token but the curly quotes and the names that a table
\* inherits
C24_StaticFallbackButCurlyQuotes ==
    (lookup.kind = "static"
        /\ lookup.token \notin {<<"U+201C">>, <<"U+201D">>, <<"U+2018">>, <<"U+2019">>}
        /\ lookup.token \notin DOMAIN ObjectPrototype) =>
        IF IsPunctuation(lookup.token)
        THEN lookup.result =
                IF Held(staticClips.punctuation, ClaimedVariant(lookup.token)) # Null
                THEN Held(staticClips.punctuation, ClaimedVariant(lookup.token))
                ELSE Held(staticClips.punctuation, <<".">>)
        ELSE lookup.result = Held(staticClips.words, Slugify(lookup.token))

\* the positions of the #EXTINF lines of the playlist, in order: the segments
ExtinfLines == Ascending({k \in 1..Len(playlist) : playlist[k].kind = "#EXTINF:"})

\* thousandths is the duration, rounded to three decimals
ThreeDecimals(thousandths, duration) ==
    /\ 10 * thousandths - duration <= 5
    /\ duration - 10 * thousandths <= 5

\* the segment at line k: its discontinuity tag, its #EXTINF line, its URL
SegmentIs(k, thousandths, filename) ==
    /\ k > 1
    /\ k < Len(playlist)
    /\ playlist[k - 1].kind = "#EXT-X-DISCONTINUITY"
    /\ playlist[k].n = thousandths
    /\ playlist[k + 1].kind = ""
    /\ playlist[k + 1].parts[Len(playlist[k + 1].parts)] = filename

\* C25: the first segment of a playlist is the opener, opener.ts of 8.080 s
\* under its own discontinuity tag, also when the script is empty; the k-th
\* segment after it has the file name of script[k] and its duration to three
\* decimals; #EXT-X-ENDLIST follows the last segment.
C25_SegmentOrder ==
    pc = "done" =>
        /\ Len(ExtinfLines) = Len(script) + 1
        /\ SegmentIs(ExtinfLines[1], 8080, "opener.ts")
        /\ \A k \in 1..(ExtinfLines[1] - 2) :
                playlist[k].kind \notin {"#EXT-X-DISCONTINUITY", "#EXTINF:", ""}
        /\ \A k \in 1..Len(script) :
            /\ ExtinfLines[k + 1] = ExtinfLines[k] + 3
            /\ SegmentIs(ExtinfLines[k + 1], playlist[ExtinfLines[k + 1]].n, script[k].filename)
            /\ ThreeDecimals(playlist[ExtinfLines[k + 1]].n, script[k].duration)
        /\ playlist[ExtinfLines[Len(script) + 1] + 2].kind = "#EXT-X-ENDLIST"

\* a playlist of a script of three items, the first two with different file
\* names and durations
C25_Witness ==
    /\ pc = "done"
    /\ Len(script) = 3
    /\ script[1].filename # script[2].filename
    /\ script[1].duration # script[2].duration
    /\ Len(playlist) = 21

\* C26: the manifest is read-only after load. No generatePlaylist call and no
\* HTTP request changes phraseMap, phraseClips, staticClips or fixedTokens.
C26_ManifestReadOnly ==
    [][proc = "listening" => UNCHANGED <<phraseMap, phraseClips, staticClips, fixedTokens>>]_vars

\* two sessions were generated and stored, each with a clip selected from the
\* pool of a phrase, and the pool is what the manifest file holds
C26_Witness ==
    /\ proc = "listening"
    /\ Cardinality(DOMAIN sessions) = 2
    /\ \A sid \in DOMAIN sessions :
            \E k \in 1..Len(sessions[sid].script) : sessions[sid].script[k].type = "phrase"
    /\ phraseClips = manifestFile.manifest.phraseClips

\* the step is the answer to a GET of the playlist or of the session info
ReadStep ==
    /\ resp'.op \in {"GET /:sessionId.m3u8", "GET /session/:sessionId"}
    /\ <<resp, sessions>>' # <<resp, sessions>>

\* C28: reading a session never extends its life. Both GET routes leave the
\* created time, the playlist and the script of every session as they are and
\* remove none; the cleanup removes a session exactly when its age, counted
\* from its creation, exceeds sessionTTL; and with the cleanup run every
\* cleanupInterval no session is in the store later than sessionTTL +
\* cleanupInterval after its creation, however often it was requested.
C28_ReadsDoNotExtendLife ==
    /\ [](\A sid \in DOMAIN sessions :
            now - sessions[sid].created <= 60 * 60 * 1000 + 5 * 60 * 1000)
    /\ [][ /\ ReadStep =>
                /\ DOMAIN sessions' = DOMAIN sessions
                /\ \A sid \in DOMAIN sessions :
                    /\ sessions'[sid].created = sessions[sid].created
                    /\ sessions'[sid].playlist = sessions[sid].playlist
                    /\ sessions'[sid].script = sessions[sid].script
           /\ CleanupStep =>
                DOMAIN sessions' =
                    {sid \in DOMAIN sessions : now - sessions[sid].created <= 60 * 60 * 1000} ]_vars

\* a session that was requested when its age had reached sessionTTL is still
\* in the store, at the age of sessionTTL + cleanupInterval, with the cleanup due
C28_Witness ==
    /\ now = timerDue
    /\ \E sid \in DOMAIN sessions :
        /\ sessions[sid].lastAccessed # <<>>
        /\ sessions[sid].lastAccessed[1] - sessions[sid].created >= sessionTTL
        /\ now - sessions[sid].created = sessionTTL + cleanupInterval

\* how the regular expression of the tokenizer produced a token: by its first
\* alternative, a run of word characters, apostrophes and hyphens, or by its
\* second, one other character
EmittedAsWordRun(token) ==
    Len(token) > 0 /\ \A k \in 1..Len(token) : IsTokenChar(token[k])
EmittedAsSingle(token) ==
    Len(token) = 1 /\ ~IsTokenChar(token[1]) /\ ~IsSpace(token[1])

\* C27: the tokenizer, the matcher and the static resolver agree on what
\* punctuation is. The test of greedyMatchPhrases and getStaticClip holds of a
\* token of normalizeAndTokenize exactly when the tokenizer emitted it as a
\* single non-word character; a token emitted as a word run is a word to both.
C27_PunctuationAgreed ==
    tok.stage \in {"tokens", "again"} =>
        \A n \in 1..Len(tok.tokens) :
            /\ IsPunctuation(tok.tokens[n]) <=> EmittedAsSingle(tok.tokens[n])
            /\ EmittedAsWordRun(tok.tokens[n]) => ~IsPunctuation(tok.tokens[n])

\* the same, of the tokens that hold a character other than apostrophes and hyphens
C27_AgreedButBareHyphens ==
    tok.stage \in {"tokens", "again"} =>
        \A n \in 1..Len(tok.tokens) :
            (\E k \in 1..Len(tok.tokens[n]) : tok.tokens[n][k] \notin {"'", "-"}) =>
                /\ EmittedAsWordRun(tok.tokens[n]) \/ EmittedAsSingle(tok.tokens[n])
                /\ IsPunctuation(tok.tokens[n]) <=> EmittedAsSingle(tok.tokens[n])
                /\ EmittedAsWordRun(tok.tokens[n]) => ~IsPunctuation(tok.tokens[n])

\* C29: in the generator page at most one Hls instance is alive: the instance
\* alive, if any, is the one the variable hls holds, so an instance created
\* earlier was destroyed before the next one was created; after reset() hls
\* and currentSession are null and the input container is the active one.
C29_OneHlsInstance ==
    front.kind = "page" =>
        /\ Cardinality(front.live) <= 1
        /\ front.live = IF front.hls = 0 THEN {} ELSE {front.hls}
        /\ front.event = "reset" =>
            /\ front.hls = 0
            /\ front.currentSession = <<>>
            /\ front.active = {"inputContainer"}

\* the second generateVideo call has loaded its video after the first had: the
\* instance of the first is destroyed, the one of the second is alive
C29_Witness ==
    /\ front.kind = "page"
    /\ front.event = "loaded"
    /\ front.hls = 2
    /\ front.live = {2}
    /\ front.calls[1].stage = "over"
    /\ front.calls[1].data # <<>>

\* C30: generation terminates. Each iteration of the outer loop of
\* greedyMatchPhrases and each iteration of the loop of generateScript moves
\* the index forward; the index never passes tokens.length; matches and script
\* are never longer than tokens; and a generatePlaylist call that has begun
\* comes to its end.
C30_GenerationTerminates ==
    /\ [][ /\ (pc = "match" /\ pc' = "match") => i' > i
           /\ (pc = "script" /\ pc' = "script") => i' > i ]_vars
    /\ [](pc \in {"match", "script", "build", "done"} =>
            /\ i <= Len(tokens)
            /\ Len(matches) <= Len(tokens)
            /\ Len(script) <= Len(tokens))
    /\ (pc = "match" ~> pc \in {"done", "error"})

\* a call on three tokens has ended, its script loop having passed a match of
\* two tokens in one iteration
C30_Witness ==
    /\ pc = "done"
    /\ Len(tokens) = 3
    /\ i = 3
    /\ \E n \in 1..Len(matches) : matches[n].end - matches[n].start = 2
    /\ Len(script) = 2

====
